---- MODULE Spec2Model ----
(***************************************************************************)
(* Pagination engine of tiptap-pages.                                      *)
(*                                                                         *)
(* The document is held as its ProseMirror token stream: one token for the *)
(* opening of a node, one for its closing, one per character of text.  The *)
(* position p of ProseMirror's linear addressing is the gap after token p, *)
(* so a node that opens at token i sits at position i - 1, its content     *)
(* starts at position i, and nodeSize is the number of its tokens.         *)
(***************************************************************************)
EXTENDS Integers, Sequences, FiniteSets, TLC

VARIABLES
    doc,        \* tr.doc: the document of the transaction being built
    doc0,       \* state.doc: the document the pass started from
    pc,         \* position of the pass inside PageComputedContext.run
    flags,      \* PageState: inserting, deleting, splitPage
    sel,        \* state.selection: from, head
    prevFirst,  \* prevState.doc.firstChild.content.size > 0
    steps,      \* tr.steps.length (saturating at MaxSteps)
    nextId,     \* the next value getId() returns
    budget,     \* getBodyHeight(bodyOptions), in lines
    width,      \* measurement oracle: characters that fit on one line
    ops,        \* operations computed by removeElementsWithDuplicateId
    search,     \* a call of binarySearchTextBreak: its arguments and its result
    options,    \* this.options of PageExtension and the outcome of onBeforeCreate
    surface,    \* module state of core.ts: the scratch iframe and the caches
    call        \* a function followed on its own: its arguments and what it did

vars == <<doc, doc0, pc, flags, sel, prevFirst, steps, nextId, budget, width, ops,
          search, options, surface, call>>

(***************************************************************************)
(* node-names                                                              *)
(***************************************************************************)
PARAGRAPH == "paragraph"
PAGE == "page"
HEADING == "heading"
BULLETLIST == "bulletList"
ORDEREDLIST == "orderedList"
LISTITEM == "listItem"

NoId == 0
Null == [pos |-> -1, depth |-> -1]

(***************************************************************************)
(* Tokens                                                                  *)
(***************************************************************************)
Open(t, id, ext, num) ==
    [k |-> "open", type |-> t, id |-> id, extend |-> ext, num |-> num, ch |-> ""]
Close(t) ==
    [k |-> "close", type |-> t, id |-> NoId, extend |-> FALSE, num |-> 0, ch |-> ""]
Ch(c) ==
    [k |-> "text", type |-> "text", id |-> NoId, extend |-> FALSE, num |-> 0, ch |-> c]

IsOpen(d, i) == d[i].k = "open"
IsClose(d, i) == d[i].k = "close"
IsText(d, i) == d[i].k = "text"

Min(a, b) == IF a < b THEN a ELSE b
Max(a, b) == IF a > b THEN a ELSE b

RECURSIVE ScanClose(_, _, _)
ScanClose(d, j, depth) ==
    IF j > Len(d) THEN Len(d) + 1
    ELSE IF d[j].k = "open" THEN ScanClose(d, j + 1, depth + 1)
    ELSE IF d[j].k = "close"
         THEN IF depth = 0 THEN j ELSE ScanClose(d, j + 1, depth - 1)
    ELSE ScanClose(d, j + 1, depth)

\* Index of the closing token of the node that opens at token i.
CloseOf(d, i) == ScanClose(d, i + 1, 0)

\* Node.nodeSize of the node that opens at token i.
NodeSize(d, i) == CloseOf(d, i) - i + 1

\* The open token of the innermost node that contains position p, 0 for the
\* document root: the first opening in front of p that is not closed again.
RECURSIVE OpenBefore(_, _, _)
OpenBefore(d, p, closed) ==
    IF p = 0 THEN 0
    ELSE IF d[p].k = "close" THEN OpenBefore(d, p - 1, closed + 1)
    ELSE IF d[p].k = "text" THEN OpenBefore(d, p - 1, closed)
    ELSE IF closed = 0 THEN p
    ELSE OpenBefore(d, p - 1, closed - 1)

\* ResolvedPos: the open tokens of the ancestors of position p, outermost
\* first (the document root itself is not a token); its length is $pos.depth.
RECURSIVE Ancestors(_, _)
Ancestors(d, p) ==
    LET parent == OpenBefore(d, p, 0)
    IN  IF parent = 0 THEN <<>>
        ELSE Append(Ancestors(d, parent - 1), parent)

Depth(d, p) == Len(Ancestors(d, p))

\* Node.textContent of the node that opens at token i.
RECURSIVE TextBetween(_, _, _)
TextBetween(d, i, j) ==
    IF i > j THEN <<>>
    ELSE IF d[i].k = "text" THEN <<d[i].ch>> \o TextBetween(d, i + 1, j)
    ELSE TextBetween(d, i + 1, j)

TextContent(d, i) == TextBetween(d, i, CloseOf(d, i))
DocText(d) == TextBetween(d, 1, Len(d))

\* Open tokens of the children of the node that opens at token i (i = 0:
\* the children of the document root).
RECURSIVE ChildrenFrom(_, _, _)
ChildrenFrom(d, j, last) ==
    IF j > last THEN <<>>
    ELSE IF d[j].k = "open"
         THEN <<j>> \o ChildrenFrom(d, CloseOf(d, j) + 1, last)
    ELSE ChildrenFrom(d, j + 1, last)

Children(d, i) ==
    IF i = 0 THEN ChildrenFrom(d, 1, Len(d))
    ELSE ChildrenFrom(d, i + 1, CloseOf(d, i) - 1)

Pages(d) == Children(d, 0)
\* doc.lastChild: the node that the last token closes
LastPage(d) == OpenBefore(d, Len(d) - 1, 0)

(***************************************************************************)
(* Measurement oracle.  A deterministic oracle in the sense of the design: *)
(* every character has the same width, a line holds w characters and is    *)
(* one unit high, block margins and paddings are zero, and a container is  *)
(* as high as its children together.                                       *)
(***************************************************************************)
Lines(n, w) == IF n = 0 THEN 1 ELSE (n + w - 1) \div w

\* createAndCalculateHeight / computedHeight: the height of the text block
\* rebuilt with a candidate text of n characters.
CandidateHeight(n, w) == Lines(n, w)

RECURSIVE SumHeights(_, _, _)
RECURSIVE DomHeight(_, _, _)
\* getDomHeight(dom) of the element of the node that opens at token i.
DomHeight(d, i, w) ==
    IF d[i].type \in {PARAGRAPH, HEADING}
    THEN Lines(CloseOf(d, i) - i - 1, w)
    ELSE SumHeights(d, Children(d, i), w)
SumHeights(d, cs, w) ==
    IF cs = <<>> THEN 0
    ELSE DomHeight(d, cs[1], w) + SumHeights(d, Tail(cs), w)

\* getDomPaddingAndMargin(dom)
DomPaddingAndMargin(d, i) == 0

\* getDefault(): the height of one default line of text
DefaultHeight(w) == Lines(1, w)

(***************************************************************************)
(* Text-Break Search (core.ts)                                             *)
(***************************************************************************)
MinUnbreakable == 7

\* String.prototype.lastIndexOf(' ') on the first n characters: the 0-based
\* index of the last space, -1 when there is none.
RECURSIVE LastSpaceIndex(_, _)
LastSpaceIndex(text, n) ==
    IF n = 0 THEN -1
    ELSE IF text[n] = " " THEN n - 1
    ELSE LastSpaceIndex(text, n - 1)

\* The loop of binarySearchTextBreak with a candidate that is not trimmed
\* back to the last space: the text is cut wherever the probe falls.
RECURSIVE SearchLoopUntrimmed(_, _, _, _, _, _)
SearchLoopUntrimmed(fullText, low, high, validBreak, heightLimit, w) ==
    IF low > high THEN validBreak
    ELSE
      LET mid == (low + high) \div 2
      IN  IF CandidateHeight(mid, w) <= heightLimit
          THEN SearchLoopUntrimmed(fullText, mid + 1, high, mid, heightLimit, w)
          ELSE SearchLoopUntrimmed(fullText, low, mid - 1, validBreak, heightLimit, w)

\* The loop of binarySearchTextBreak, lines 290-329
RECURSIVE SearchLoop(_, _, _, _, _, _)
SearchLoop(fullText, low, high, validBreak, heightLimit, w) ==
    IF low > high THEN validBreak
    ELSE
      LET mid == (low + high) \div 2
          found == LastSpaceIndex(fullText, mid)
      IN  IF found < 0 /\ ~(mid > MinUnbreakable) THEN 0
          ELSE
            LET lastSpaceIndex == IF found < 0 THEN mid ELSE found
            IN  IF lastSpaceIndex = 0 /\ ~(mid > 1) THEN 0
                ELSE
                  LET candidateLen == IF lastSpaceIndex = 0 THEN 1 ELSE lastSpaceIndex
                  IN  IF CandidateHeight(candidateLen, w) <= heightLimit
                      THEN SearchLoop(fullText, mid + 1, high,
                                      IF lastSpaceIndex > 0 THEN lastSpaceIndex
                                                            ELSE candidateLen,
                                      heightLimit, w)
                      ELSE SearchLoop(fullText, low, mid - 1, validBreak, heightLimit, w)

binarySearchTextBreak(fullText, heightLimit, w) ==
    SearchLoop(fullText, 1, Len(fullText), 0, heightLimit, w)

\* calculateNodeOverflowHeightAndPoint for a text block whose content is one
\* run of unmarked text: the offset, from the position of the node, at which it
\* is to be cut; 0 when no point was found.
calculateNodeOverflowHeightAndPoint(d, i, acc, bud, w) ==
    LET height == IF acc = 0 THEN bud ELSE bud - acc
        text == TextContent(d, i)
        breakIndex == IF text = <<>> THEN 0
                      ELSE binarySearchTextBreak(text, height, w)
    IN  IF breakIndex > 0 THEN breakIndex + 1 ELSE 0

\* getBreakPos: 0 stands for null.
getBreakPos(d, i, acc, bud, w) ==
    IF w >= Len(TextContent(d, i)) THEN 0
    ELSE calculateNodeOverflowHeightAndPoint(d, i, acc, bud, w)

(***************************************************************************)
(* Split context and the dispatch table (defaultNodesComputed).  A context *)
(* is [acc, b]: the accumulated height and the boundary (Null: none).  A   *)
(* decision function returns the new context and whether to recurse.       *)
(***************************************************************************)
Ctx(acc, b) == [acc |-> acc, b |-> b]
Boundary(pos, depth) == [pos |-> pos, depth |-> depth]
Decision(ctx, recurse) == [ctx |-> ctx, recurse |-> recurse]

\* SplitContext.isOverflow
isOverflow(ctx, height, bud) == ctx.acc + height > bud
\* SplitContext.addHeight
addHeight(ctx, height) == Ctx(ctx.acc + height, ctx.b)
\* SplitContext.setBoundary
setBoundary(ctx, pos, depth) == Ctx(ctx.acc, Boundary(pos, depth))

\* splitResolve(pos).length counted without the chunk of the document root
ChunksLengthShort(d, pos) == Depth(d, pos)

\* SplitContext.splitResolve(pos).length: the path of a resolved position has
\* three entries per level, cut into chunks of three.
ChunksLength(d, pos) == Depth(d, pos) + 1

\* chunks[chunks.length - 2][2]: the position in front of the parent of pos;
\* -1 when chunks has one entry only (chunk undefined).
ParentChunkPos(d, pos) ==
    LET a == Ancestors(d, pos)
    IN  IF a = <<>> THEN -1 ELSE a[Len(a)] - 1

\* parent.firstChild === node, for the node that opens at token i
IsFirstChild(d, i) == i > 1 /\ IsOpen(d, i - 1)

sameListCalculation(d, i, ctx, bud, w) ==
    LET pHeight == DomHeight(d, i, w)
    IN  IF isOverflow(ctx, pHeight, bud) THEN Decision(ctx, TRUE)
        ELSE Decision(addHeight(ctx, pHeight), FALSE)

\* The list item callback without the rule for the first item of a list
sameItemCalculationOwn(d, i, ctx, bud, w) ==
    LET pos == i - 1
        pHeight == DomHeight(d, i, w)
    IN  IF ~isOverflow(ctx, pHeight, bud)
        THEN Decision(addHeight(ctx, pHeight), FALSE)
        ELSE IF pHeight > bud
        THEN Decision(addHeight(ctx, DomPaddingAndMargin(d, i)), TRUE)
        ELSE Decision(setBoundary(ctx, pos, ChunksLength(d, pos) - 1), FALSE)

sameItemCalculation(d, i, ctx, bud, w) ==
    LET pos == i - 1
        n == ChunksLength(d, pos)
        pHeight == DomHeight(d, i, w)
        first == IsFirstChild(d, i)
        up == ParentChunkPos(d, pos)
    IN  IF ~isOverflow(ctx, pHeight, bud)
        THEN Decision(addHeight(ctx, pHeight), FALSE)
        ELSE IF pHeight > bud
        THEN Decision(addHeight(ctx, DomPaddingAndMargin(d, i)), TRUE)
        ELSE Decision(setBoundary(ctx,
                                  IF first /\ up > 0 THEN up ELSE pos,
                                  IF first THEN n - 2 ELSE n - 1), FALSE)

\* The heading callback with the first-child rule of the paragraph callback
headingCalculationFirstChild(d, i, ctx, bud, w) ==
    LET pos == i - 1
        n == ChunksLength(d, pos)
        pHeight == DomHeight(d, i, w)
        point == IF pHeight > bud THEN getBreakPos(d, i, ctx.acc, bud, w) ELSE 0
        up == ParentChunkPos(d, pos)
    IN  IF ~isOverflow(ctx, pHeight, bud)
        THEN Decision(addHeight(ctx, pHeight), FALSE)
        ELSE IF point > 0
        THEN Decision(setBoundary(ctx, pos + point, n), FALSE)
        ELSE IF IsFirstChild(d, i) /\ up > 0
        THEN Decision(setBoundary(ctx, up, n - 2), FALSE)
        ELSE Decision(setBoundary(ctx, pos, n - 1), FALSE)

headingCalculation(d, i, ctx, bud, w) ==
    LET pos == i - 1
        n == ChunksLength(d, pos)
        pHeight == DomHeight(d, i, w)
        point == IF pHeight > bud THEN getBreakPos(d, i, ctx.acc, bud, w) ELSE 0
    IN  IF ~isOverflow(ctx, pHeight, bud)
        THEN Decision(addHeight(ctx, pHeight), FALSE)
        ELSE Decision(setBoundary(ctx,
                                  IF point > 0 THEN pos + point ELSE pos,
                                  IF point > 0 THEN n ELSE n - 1), FALSE)

paragraphCalculation(d, i, ctx, bud, w) ==
    LET pos == i - 1
        n == ChunksLength(d, pos)
        pHeight == DomHeight(d, i, w)
        point == IF pHeight > DefaultHeight(w)
                 THEN getBreakPos(d, i, ctx.acc, bud, w) ELSE 0
        up == ParentChunkPos(d, pos)
    IN  IF ~isOverflow(ctx, pHeight, bud)
        THEN Decision(addHeight(ctx, pHeight), FALSE)
        ELSE IF point > 0
        THEN Decision(setBoundary(ctx, pos + point, n), FALSE)
        ELSE IF IsFirstChild(d, i)
        THEN IF up > 0 THEN Decision(setBoundary(ctx, up, n - 2), FALSE)
                       ELSE Decision(ctx, FALSE)
        ELSE Decision(setBoundary(ctx, pos, n - 1), FALSE)

\* nodesComputed[node.type.name](splitContext, node, pos, parentNode, dom)
nodesComputed(d, i, ctx, bud, w) ==
    CASE d[i].type \in {ORDEREDLIST, BULLETLIST} -> sameListCalculation(d, i, ctx, bud, w)
      [] d[i].type = LISTITEM -> sameItemCalculation(d, i, ctx, bud, w)
      [] d[i].type = HEADING -> headingCalculation(d, i, ctx, bud, w)
      [] d[i].type = PARAGRAPH -> paragraphCalculation(d, i, ctx, bud, w)
      [] d[i].type = PAGE -> Decision(ctx, i = LastPage(d))

\* doc.descendants(...) of getNodeHeight, from token i to token last: the
\* pre-order walk, which skips the content of a node whose callback returned
\* false; once a boundary is set every callback returns false.
RECURSIVE Walk(_, _, _, _, _, _)
Walk(d, i, last, ctx, bud, w) ==
    IF i > last \/ ctx.b # Null THEN ctx
    ELSE IF IsOpen(d, i)
    THEN LET r == nodesComputed(d, i, ctx, bud, w)
         IN  IF r.recurse THEN Walk(d, i + 1, last, r.ctx, bud, w)
             ELSE Walk(d, CloseOf(d, i) + 1, last, r.ctx, bud, w)
    ELSE Walk(d, i + 1, last, ctx, bud, w)

\* PageComputedContext.getNodeHeight: the boundary, Null when there is none.
\* Pages other than the last are skipped by the callback's first test.
getNodeHeight(d, bud, w) ==
    LET lp == LastPage(d)
    IN  Walk(d, lp, CloseOf(d, lp), Ctx(0, Null), bud, w).b

\* The height getNodeHeight has accumulated when its walk ends.
AccumulatedHeight(d, bud, w) ==
    LET lp == LastPage(d)
    IN  Walk(d, lp, CloseOf(d, lp), Ctx(0, Null), bud, w).acc

(***************************************************************************)
(* Transform steps on the token stream                                     *)
(***************************************************************************)
\* Insertion of tokens at position p.
InsertAt(d, p, toks) == SubSeq(d, 1, p) \o toks \o SubSeq(d, p + 1, Len(d))

\* Removal of the tokens between positions a and b.
RemoveRange(d, a, b) == SubSeq(d, 1, a) \o SubSeq(d, b + 1, Len(d))

\* findParentNodeClosestToPos($pos, node => node.type.name === ORDEREDLIST):
\* the open token of the closest ordered-list ancestor, 0 when there is none.
RECURSIVE ClosestOrderedList(_, _, _)
ClosestOrderedList(d, a, k) ==
    IF k = 0 THEN 0
    ELSE IF d[a[k]].type = ORDEREDLIST THEN a[k]
    ELSE ClosestOrderedList(d, a, k - 1)

\* The list item at token j has an ordered list among its ancestors.
InOrderedList(d, j) == ClosestOrderedList(d, Ancestors(d, j - 1), Depth(d, j - 1)) # 0

\* The while loop that looks for the start of the sequence: it steps out as
\* long as the position in front of currentPos lies directly in an ordered
\* list.
RECURSIVE SequenceStart(_, _)
SequenceStart(d, currentPos) ==
    LET a == Ancestors(d, currentPos - 1)
    IN  IF currentPos > 0 /\ a # <<>> /\ d[a[Len(a)]].type = ORDEREDLIST
        THEN SequenceStart(d, a[Len(a)])
        ELSE currentPos

\* Number of list items in an ordered list whose position is in lo .. hi - 1.
CountItems(d, lo, hi) ==
    Cardinality({j \in 1..Len(d) :
        /\ IsOpen(d, j) /\ d[j].type = LISTITEM
        /\ j - 1 >= lo /\ j - 1 < hi
        /\ InOrderedList(d, j)})

calculateOrderedListStart(d, splitPos) ==
    LET a == Ancestors(d, splitPos)
        parentOrderedList == ClosestOrderedList(d, a, Len(a))
    IN  IF parentOrderedList = 0 THEN 1
        ELSE IF d[parentOrderedList].extend
        THEN CountItems(d, 0, splitPos) + 1
        ELSE CountItems(d, SequenceStart(d, parentOrderedList), splitPos) + 1

\* The closing tokens of `before`: levels k down to lo, innermost first.
RECURSIVE BeforeCloses(_, _, _, _)
BeforeCloses(d, a, k, lo) ==
    IF k < lo THEN <<>>
    ELSE <<Close(d[a[k]].type)>> \o BeforeCloses(d, a, k - 1, lo)

\* The opening tokens of `after`, built from level k outwards to level lo as
\* the loop of splitPage builds them; nid is the next value of getId().  A
\* copy with an id gets a new id, extend: true and, for an ordered list, its
\* start; the outermost copy is replaced by a node of the page type.
\* The page number of a copy left as it is
SamePageNumber(na) == na.num

\* pageNumber: na?.attrs.pageNumber + 1, for the copy na of the page
NextPageNumber(na) == na.num + 1

\* The opening tokens of `after` as tr.split builds them, every copy with the
\* attributes of the node it copies, under a new page.
RECURSIVE AfterOpensCopied(_, _, _, _, _, _)
AfterOpensCopied(d, a, pos, k, lo, nid) ==
    IF k < lo THEN [toks |-> <<>>, nid |-> nid]
    ELSE
      LET n == d[a[k]]
          tok == IF k = lo THEN Open(PAGE, nid, FALSE, n.num + 1) ELSE n
          rest == AfterOpensCopied(d, a, pos, k - 1, lo, IF k = lo THEN nid + 1 ELSE nid)
      IN  [toks |-> rest.toks \o <<tok>>, nid |-> rest.nid]

RECURSIVE AfterOpens(_, _, _, _, _, _)
AfterOpens(d, a, pos, k, lo, nid) ==
    IF k < lo THEN [toks |-> <<>>, nid |-> nid]
    ELSE
      LET n == d[a[k]]
          hasId == n.id # NoId
          na == IF hasId
                THEN Open(n.type, nid, TRUE,
                          IF n.type = ORDEREDLIST
                          THEN calculateOrderedListStart(d, pos) ELSE n.num)
                ELSE n
          nid1 == IF hasId THEN nid + 1 ELSE nid
          tok == IF k = lo THEN Open(PAGE, nid1, FALSE, NextPageNumber(na)) ELSE na
          nid2 == IF k = lo THEN nid1 + 1 ELSE nid1
          rest == AfterOpens(d, a, pos, k - 1, lo, nid2)
      IN  [toks |-> rest.toks \o <<tok>>, nid |-> rest.nid]

\* splitPage with a step that replaces the character behind the cut, where
\* there is one, instead of inserting in front of it.
splitPageTrimming(d, pos, depth, nid) ==
    LET a == Ancestors(d, pos)
        lo == Len(a) - depth + 1
        after == AfterOpens(d, a, pos, Len(a), lo, nid)
        to == IF depth > 0 /\ pos < Len(d) /\ IsText(d, pos + 1) THEN pos + 1 ELSE pos
    IN  [doc |-> SubSeq(d, 1, pos) \o BeforeCloses(d, a, Len(a), lo) \o after.toks
                 \o SubSeq(d, to + 1, Len(d)),
         nid |-> after.nid]

\* PageComputedContext.splitPage: the document after the ReplaceStep and the
\* next value of getId().  With depth 0 the slice is empty and the step
\* replaces nothing.
splitPage(d, pos, depth, nid) ==
    LET a == Ancestors(d, pos)
        lo == Len(a) - depth + 1
        after == AfterOpens(d, a, pos, Len(a), lo, nid)
    IN  [doc |-> InsertAt(d, pos, BeforeCloses(d, a, Len(a), lo) \o after.toks),
         nid |-> after.nid]

\* tr.join(pos, depth): ReplaceStep(pos - depth, pos + depth, Slice.empty, true)
join(d, pos, depth) == RemoveRange(d, pos - depth, pos + depth)

\* canMergeDeep without the test of attrs.extend
canMergeDeepByType(d) ==
    LET ps == Pages(d)
        lastPage == ps[Len(ps)]
    IN  /\ IsOpen(d, lastPage + 1)
        /\ IsClose(d, lastPage - 2)
        /\ d[lastPage + 1].type = d[lastPage - 2].type

\* lastPage.firstChild.type === prePage.lastChild.type (no node type of
\* the schema has a name that includes EXTEND) && lastPage.firstChild.attrs.extend
canMergeDeep(d) ==
    LET ps == Pages(d)
        lastPage == ps[Len(ps)]
        prePage == ps[Len(ps) - 1]
    IN  /\ IsOpen(d, lastPage + 1)
        /\ IsClose(d, lastPage - 2)
        /\ d[lastPage + 1].type = d[lastPage - 2].type
        /\ d[lastPage + 1].extend

\* PageComputedContext.mergeDefaultDocument(count)
RECURSIVE mergeDefaultDocument(_, _)
mergeDefaultDocument(d, count) ==
    IF Len(Pages(d)) > count
    THEN mergeDefaultDocument(
             join(d, LastPage(d) - 1, IF canMergeDeep(d) THEN 2 ELSE 1), count)
    ELSE d

(***************************************************************************)
(* Deletion of a range (Transform.deleteRange and the replace it falls     *)
(* back to), as removeElementsWithDuplicateId uses it.                     *)
(***************************************************************************)
DOC == "doc"

\* $pos.node(k).type.name; the root for k = 0
TypeAt(d, a, k) == IF k = 0 THEN DOC ELSE d[a[k]].type
\* $pos.start(k), $pos.end(k), $pos.before(k), $pos.after(k)
StartAt(d, a, k) == IF k = 0 THEN 0 ELSE a[k]
EndAt(d, a, k) == IF k = 0 THEN Len(d) ELSE CloseOf(d, a[k]) - 1
BeforeAt(d, a, k) == a[k] - 1
AfterAt(d, a, k) == CloseOf(d, a[k])

\* NodeSpec.isolating: set for the page node only
Isolating(t) == t = PAGE
\* NodeType.inlineContent
InlineContent(t) == t \in {PARAGRAPH, HEADING}
\* NodeType.contentMatch.validEnd: the node may be empty
ValidEnd(t) == t \in {PARAGRAPH, HEADING, PAGE}

\* The content expressions of the schema: doc `page+`, page `block*`, lists
\* `listItem+`, list item `paragraph block*`.
ValidContent(t, cs) ==
    CASE t = DOC -> Len(cs) >= 1 /\ \A k \in 1..Len(cs) : cs[k] = PAGE
      [] t \in {ORDEREDLIST, BULLETLIST} ->
             Len(cs) >= 1 /\ \A k \in 1..Len(cs) : cs[k] = LISTITEM
      [] t = LISTITEM -> Len(cs) >= 1 /\ cs[1] = PARAGRAPH
      [] t = PAGE -> \A k \in 1..Len(cs) : cs[k] # LISTITEM
      [] OTHER -> cs = <<>>

\* Children (open tokens) of the node at depth k of a resolved position.
NodeChildren(d, a, k) == Children(d, IF k = 0 THEN 0 ELSE a[k])

\* $pos.index(k): the number of children of the node at depth k that end at
\* or in front of position p.
IndexAt(d, a, k, p) ==
    LET cs == NodeChildren(d, a, k)
    IN  Cardinality({c \in 1..Len(cs) : CloseOf(d, cs[c]) <= p})

\* Node.canReplace(from, to) with an empty replacement
canReplace(d, a, k, from, to) ==
    LET cs == NodeChildren(d, a, k)
        kept == [c \in 1..(Len(cs) - (to - from)) |->
                    IF c <= from THEN d[cs[c]].type ELSE d[cs[c + (to - from)]].type]
    IN  to >= from /\ to <= Len(cs) /\ ValidContent(TypeAt(d, a, k), kept)

\* The types of the children of the node at depth k of the path a that open
\* at or in front of position pos (the child that pos lies in is the last of
\* them), and of those that open behind pos.
TypesUpTo(d, a, k, pos) ==
    LET cs == NodeChildren(d, a, k)
        n == Cardinality({c \in 1..Len(cs) : cs[c] <= pos})
    IN  [c \in 1..n |-> d[cs[c]].type]

TypesBehind(d, a, k, pos) ==
    LET cs == NodeChildren(d, a, k)
        n == Cardinality({c \in 1..Len(cs) : cs[c] <= pos})
    IN  [c \in 1..(Len(cs) - n) |-> d[cs[n + c]].type]

\* ReplaceStep(pos, pos, Slice(before.append(after), depth, depth)).apply
\* does not fail: Node.replace closes every node it rebuilds (close calls
\* checkContent, which throws on content the schema does not allow).  The
\* nodes rebuilt are, for each level the slice is open at, the half in front
\* of pos and the half behind it (a page at the outermost level), and the
\* node that holds both.
ValidSplit(d, pos, depth) ==
    LET a == Ancestors(d, pos)
        lo == Len(a) - depth + 1
    IN  /\ depth <= Len(a)
        /\ depth > 0 =>
             /\ \A k \in lo..Len(a) :
                  /\ ValidContent(d[a[k]].type, TypesUpTo(d, a, k, pos))
                  /\ ValidContent(IF k = lo THEN PAGE ELSE d[a[k]].type,
                                  (IF k < Len(a) THEN <<d[a[k + 1]].type>> ELSE <<>>)
                                  \o TypesBehind(d, a, k, pos))
             /\ ValidContent(TypeAt(d, a, lo - 1),
                             TypesUpTo(d, a, lo - 1, pos) \o <<PAGE>>
                             \o TypesBehind(d, a, lo - 1, pos))

\* coveredDepths($from, $to), deepest first
RECURSIVE coveredDepths(_, _, _, _, _, _)
coveredDepths(d, af, at, from, to, k) ==
    IF k < 0 THEN <<>>
    ELSE
      LET start == StartAt(d, af, k)
      IN  IF \/ start < from - (Len(af) - k)
             \/ EndAt(d, at, k) > to + (Len(at) - k)
             \/ Isolating(TypeAt(d, af, k))
             \/ Isolating(TypeAt(d, at, k))
          THEN <<>>
          ELSE (IF \/ start = StartAt(d, at, k)
                   \/ /\ k = Len(af) /\ k = Len(at) /\ k > 0
                      /\ InlineContent(TypeAt(d, af, k))
                      /\ InlineContent(TypeAt(d, at, k))
                      /\ StartAt(d, at, k - 1) = start - 1
                THEN <<k>> ELSE <<>>)
               \o coveredDepths(d, af, at, from, to, k - 1)

\* ContentMatch.fillBefore(Fragment.empty, true) at the start of a node of
\* type t: the content the schema requires, built by createAndFill.
FillFor(t) ==
    CASE t = LISTITEM -> <<Open(PARAGRAPH, NoId, FALSE, 0), Close(PARAGRAPH)>>
      [] t \in {ORDEREDLIST, BULLETLIST} ->
             <<Open(LISTITEM, NoId, FALSE, 0), Open(PARAGRAPH, NoId, FALSE, 0),
               Close(PARAGRAPH), Close(LISTITEM)>>
      [] OTHER -> <<>>

\* NodeType.compatibleContent for the node types of the schema
Compatible(t1, t2) == t1 = t2 \/ (InlineContent(t1) /\ InlineContent(t2))

\* Fitter.findCloseLevel: the deepest level at which what follows $to can be
\* joined onto the open node of $from.
RECURSIVE CloseLevel(_, _, _, _)
CloseLevel(d, af, at, k) ==
    IF k = 0 THEN 0
    ELSE IF Compatible(TypeAt(d, af, k), TypeAt(d, at, k)) THEN k
    ELSE CloseLevel(d, af, at, k - 1)

\* Fitter.closeFrontierNode for levels k down to lo + 1 of $from; the
\* innermost node is filled when the position is at its content start.
RECURSIVE CloseFrontier(_, _, _, _, _)
CloseFrontier(d, af, from, k, lo) ==
    IF k <= lo THEN <<>>
    ELSE (IF from = af[k] THEN FillFor(d[af[k]].type) ELSE <<>>)
         \o <<Close(d[af[k]].type)>>
         \o CloseFrontier(d, af, from, k - 1, lo)

\* Fitter.openFrontierNode for levels lo + 1 up to the depth of $to
OpenFrontier(d, at, lo) == [k \in 1..(Len(at) - lo) |-> d[at[lo + k]]]

\* Transform.delete(from, to): the document and the range of the step
\* ([start, oldSize, newSize], as StepMap keeps it).
delete(d, from, to) ==
    LET af == Ancestors(d, from)
        at == Ancestors(d, to)
        L == CloseLevel(d, af, at, Min(Len(af), Len(at)))
        dropInner == L < Len(at) /\ EndAt(d, at, L + 1) = to + (Len(at) - (L + 1))
        move == IF dropInner THEN AfterAt(d, at, L + 1) ELSE to
        placed == CloseFrontier(d, af, from, Len(af), L)
                  \o (IF dropInner THEN <<>> ELSE OpenFrontier(d, at, L))
    IN  IF from = to THEN [doc |-> d, range |-> <<>>]
        ELSE IF af = at
        THEN [doc |-> RemoveRange(d, from, to), range |-> <<from, to - from, 0>>]
        ELSE [doc |-> SubSeq(d, 1, from) \o placed \o SubSeq(d, move + 1, Len(d)),
              range |-> <<from, move - from, Len(placed)>>]

\* The second loop of deleteRange: the shallowest depth at which the range
\* starts at the start of a node and reaches beyond its end; 0 when none.
RECURSIVE DeleteFromDepth(_, _, _, _, _, _)
DeleteFromDepth(d, af, at, from, to, k) ==
    IF k > Len(af) \/ k > Len(at) THEN 0
    ELSE IF /\ from - StartAt(d, af, k) = Len(af) - k
            /\ to > EndAt(d, af, k)
            /\ EndAt(d, at, k) - to # Len(at) - k
            /\ StartAt(d, af, k - 1) = StartAt(d, at, k - 1)
            /\ canReplace(d, af, k - 1, IndexAt(d, af, k - 1, from),
                                        IndexAt(d, at, k - 1, to))
    THEN k
    ELSE DeleteFromDepth(d, af, at, from, to, k + 1)

\* Transform.deleteRange(from, to)
deleteRange(d, from, to) ==
    LET af == Ancestors(d, from)
        at == Ancestors(d, to)
        covered == coveredDepths(d, af, at, from, to, Min(Len(af), Len(at)))
        c == covered[1]
        k == DeleteFromDepth(d, af, at, from, to, 1)
    IN  IF covered # <<>> /\ ((Len(covered) = 1 /\ c = 0) \/ ValidEnd(TypeAt(d, af, c)))
        THEN delete(d, StartAt(d, af, c), EndAt(d, at, c))
        ELSE IF covered # <<>>
        THEN delete(d, BeforeAt(d, af, c), AfterAt(d, at, c))
        ELSE IF k > 0 THEN delete(d, BeforeAt(d, af, k), to)
        ELSE delete(d, from, to)

(***************************************************************************)
(* removeElementsWithDuplicateId                                           *)
(***************************************************************************)
\* String.prototype.includes
Includes(text, part) ==
    \E k \in 0..(Len(text) - Len(part)) : SubSeq(text, k + 1, k + Len(part)) = part

\* node.children.length > 0
HasChildren(d, i) == CloseOf(d, i) > i + 1

\* The operation pushed for the nodes old and new (open tokens) that share
\* an id, and the node kept in idMap.
DuplicatePair(d, old, new) ==
    IF NodeSize(d, old) > NodeSize(d, new)
    THEN [deleteNode |-> old, preserveNode |-> new]
    ELSE [deleteNode |-> new, preserveNode |-> old]

shouldDelete(d, pair) ==
    /\ Includes(TextContent(d, pair.preserveNode), TextContent(d, pair.deleteNode))
    /\ HasChildren(d, pair.deleteNode)

Operation(d, pair) ==
    LET pos == pair.deleteNode - 1
    IN  IF shouldDelete(d, pair)
        THEN [operation |-> "delete", from |-> pos + 1,
              to |-> pos + NodeSize(d, pair.deleteNode) + 1]
        ELSE [operation |-> "change-id", from |-> pos, to |-> pos]

\* doc.descendants of removeElementsWithDuplicateId from token i on: idMap
\* maps an id to the open token registered for it (0: none).  The content
\* of a node without id, and of a node found to be a duplicate, is skipped.
RECURSIVE CollectOperations(_, _, _, _)
CollectOperations(d, i, idMap, operations) ==
    IF i > Len(d) THEN operations
    ELSE IF ~IsOpen(d, i) THEN CollectOperations(d, i + 1, idMap, operations)
    ELSE IF d[i].id = NoId
    THEN CollectOperations(d, CloseOf(d, i) + 1, idMap, operations)
    ELSE IF d[i].id \in DOMAIN idMap
    THEN LET pair == DuplicatePair(d, idMap[d[i].id], i)
         IN  CollectOperations(d, CloseOf(d, i) + 1,
                 [idMap EXCEPT ![d[i].id] = pair.preserveNode],
                 Append(operations, Operation(d, pair)))
    ELSE CollectOperations(d, i + 1, idMap @@ (d[i].id :> i), operations)

\* operations.sort((a, b) => a.from - b.from): a stable insertion sort
RECURSIVE InsertSorted(_, _)
InsertSorted(sorted, op) ==
    IF sorted = <<>> THEN <<op>>
    ELSE IF sorted[Len(sorted)].from <= op.from THEN Append(sorted, op)
    ELSE Append(InsertSorted(SubSeq(sorted, 1, Len(sorted) - 1), op),
                sorted[Len(sorted)])

RECURSIVE SortOperations(_)
SortOperations(operations) ==
    IF operations = <<>> THEN <<>>
    ELSE InsertSorted(SortOperations(SubSeq(operations, 1, Len(operations) - 1)),
                      operations[Len(operations)])

DuplicateOperations(d) == SortOperations(CollectOperations(d, 1, <<>>, <<>>))

\* StepMap.map(pos, 1) for one replaced range <<start, oldSize, newSize>>
MapRange(r, pos) ==
    IF r = <<>> \/ r[1] > pos THEN pos
    ELSE IF pos <= r[1] + r[2]
    THEN IF r[2] # 0 /\ pos = r[1] THEN r[1] ELSE r[1] + r[3]
    ELSE pos + r[3] - r[2]

\* tr.mapping.map(pos)
RECURSIVE MapPos(_, _)
MapPos(mapping, pos) ==
    IF mapping = <<>> THEN pos
    ELSE MapPos(Tail(mapping), MapRange(Head(mapping), pos))

\* tr.setNodeAttribute(pos, 'id', id)
setNodeAttribute(d, pos, id) ==
    IF pos + 1 <= Len(d) /\ IsOpen(d, pos + 1)
    THEN [d EXCEPT ![pos + 1].id = id]
    ELSE d

\* operations.forEach(...): st holds the document, the mapping of the steps
\* applied so far, their number and the next id.
RECURSIVE ApplyOperations(_, _)
ApplyOperations(operations, st) ==
    IF operations = <<>> THEN st
    ELSE
      LET op == Head(operations)
          mappedFrom == MapPos(st.mapping, op.from)
          r == deleteRange(st.doc, mappedFrom, MapPos(st.mapping, op.to))
      IN  ApplyOperations(Tail(operations),
            IF op.operation = "delete"
            THEN [doc |-> r.doc,
                  mapping |-> Append(st.mapping, r.range),
                  steps |-> st.steps + (IF r.range = <<>> THEN 0 ELSE 1),
                  nid |-> st.nid]
            ELSE [doc |-> setNodeAttribute(st.doc, mappedFrom, st.nid),
                  mapping |-> Append(st.mapping, <<>>),
                  steps |-> st.steps + 1,
                  nid |-> st.nid + 1])


(***************************************************************************)
(* Bounds and the documents a pass starts from                             *)
(***************************************************************************)
MaxBlocks == 2      \* blocks in the document a pass starts from
MaxSteps == 12      \* tr.steps.length is counted up to this value
MaxPages == 8       \* the split loop is followed up to this many pages

Budgets == {2}      \* page budgets, in lines
Widths == {2}       \* characters per line

Chars(n, c) == [k \in 1..n |-> c]
Short == Chars(2, "a")
Words == Short \o <<" ">> \o Short
Solid == Chars(5, "a")

\* The kinds of block: type and the texts of its paragraphs (one per list
\* item for a list).
Kinds ==
    << [type |-> PARAGRAPH, texts |-> <<Short>>],
       [type |-> PARAGRAPH, texts |-> <<Words>>],
       [type |-> PARAGRAPH, texts |-> <<Solid>>],
       [type |-> HEADING, texts |-> <<Short>>],
       [type |-> HEADING, texts |-> <<Words>>],
       [type |-> HEADING, texts |-> <<Solid>>],
       [type |-> ORDEREDLIST, texts |-> <<Short>>],
       [type |-> ORDEREDLIST, texts |-> <<Short, Short, Short, Short>>],
       [type |-> ORDEREDLIST, texts |-> <<Words>>],
       [type |-> ORDEREDLIST, texts |-> <<Solid>>] >>

TextTokens(text) == [k \in 1..Len(text) |-> Ch(text[k])]

TextBlock(t, id, ext, text) ==
    <<Open(t, id, ext, 0)>> \o TextTokens(text) \o <<Close(t)>>

RECURSIVE ItemTokens(_, _)
ItemTokens(texts, id) ==
    IF texts = <<>> THEN <<>>
    ELSE <<Open(LISTITEM, id, FALSE, 0)>>
         \o TextBlock(PARAGRAPH, id + 1, FALSE, Head(texts))
         \o <<Close(LISTITEM)>>
         \o ItemTokens(Tail(texts), id + 2)

\* A block of kind k with id `id`, its inner nodes numbered from `inner`.
BlockTokens(k, id, inner, ext, start) ==
    IF k.type = ORDEREDLIST
    THEN <<Open(ORDEREDLIST, id, ext, start)>> \o ItemTokens(k.texts, inner)
         \o <<Close(ORDEREDLIST)>>
    ELSE TextBlock(k.type, id, ext, k.texts[1])

PageTokens(id, num, content) ==
    <<Open(PAGE, id, FALSE, num)>> \o content \o <<Close(PAGE)>>

DupModes == {"none", "top", "deep", "both", "noid"}

\* Blocks lo .. hi of the document of kinds ks: block k has id k + 2 and its
\* inner nodes are numbered from 10 * k, but for the second block where dup
\* says that ids are shared or missing.
RECURSIVE BlocksFrom(_, _, _, _, _)
BlocksFrom(ks, lo, hi, cont, dup) ==
    IF lo > hi THEN <<>>
    ELSE
      LET id == CASE dup = "noid" /\ lo <= 2 -> NoId
                  [] dup \in {"top", "both"} /\ lo = 2 -> 3
                  [] OTHER -> lo + 2
          inner == IF dup \in {"deep", "both", "noid"} /\ lo = 2 THEN 10 ELSE 10 * lo
          ext == cont /\ lo = 2
      IN  BlockTokens(ks[lo], id, inner, ext,
                      IF ext THEN Len(ks[1].texts) + 1 ELSE 1)
          \o BlocksFrom(ks, lo + 1, hi, cont, dup)

\* The document of blocks ks (kinds), with a page break after brk blocks
\* (brk = Len(ks): one page), the block after the break being a continuation
\* when cont, and ids shared as dup says.
BuildDoc(ks, brk, cont, dup) ==
    IF brk = Len(ks)
    THEN PageTokens(1, 1, BlocksFrom(ks, 1, Len(ks), cont, dup))
    ELSE PageTokens(1, 1, BlocksFrom(ks, 1, brk, cont, dup))
         \o PageTokens(2, 2, BlocksFrom(ks, brk + 1, Len(ks), cont, dup))

\* getId() never returns an id that is in use.
FreshId(d) ==
    LET used == {d[i].id : i \in 1..Len(d)}
    IN  1 + CHOOSE m \in used : \A x \in used : x <= m

KindSeqs == UNION {[1..n -> 1..Len(Kinds)] : n \in 0..MaxBlocks}

\* Node.content.size of the first page is not zero
FirstPageHasContent(d) == ~IsClose(d, 2)

\* The page content starts of d: the positions a selection is put at.
PageStarts(d) == {i \in 1..Len(d) : IsOpen(d, i) /\ d[i].type = PAGE}

(***************************************************************************)
(* A pass of PageComputedContext.run, and splitDocument run once more      *)
(***************************************************************************)
\* No call of binarySearchTextBreak and no options: the values of search and
\* options during a pass.
NoSearch == [fullText |-> <<>>, heightLimit |-> 0, width |-> 1, called |-> FALSE,
             offset |-> 0]
Value(kind, value) == [kind |-> kind, value |-> value]
NoOptions == [bodyHeight |-> Value("undefined", 0), bodyWidth |-> Value("undefined", 0),
              outcome |-> "none", surface |-> FALSE]

\* The measurement surface as a pass of this model sees it: built, and every
\* node measured by the oracle (DomHeight).
NoSurface == [iframeDoc |-> TRUE, style |-> 1, builds |-> 1, scratch |-> NoId,
              dimensionCache |-> <<>>, valueCache |-> 0, htmlCache |-> {},
              call |-> "none", type |-> "page", key |-> 0, result |-> 0,
              dom |-> "none", raised |-> FALSE]

\* No call of mergeDefaultDocument is followed.
NoCall == [count |-> 0, joins |-> 0, depths |-> <<>>]

Flags == [inserting : BOOLEAN, deleting : BOOLEAN, splitPage : BOOLEAN]

Init ==
    \E ks \in KindSeqs, brk \in 0..MaxBlocks, cont \in BOOLEAN, dup \in DupModes :
        /\ brk <= Len(ks)
        /\ cont => (Len(ks) = 2 /\ brk = 1 /\ dup = "none"
                     /\ Kinds[ks[1]].type = Kinds[ks[2]].type)
        /\ dup # "none" => Len(ks) = 2
        /\ dup \in {"deep", "both", "noid"} =>
               \A k \in 1..2 : Kinds[ks[k]].type = ORDEREDLIST
        /\ doc = BuildDoc([k \in 1..Len(ks) |-> Kinds[ks[k]]], brk, cont, dup)
    /\ doc0 = doc
    /\ pc = "start"
    /\ flags \in Flags
    /\ sel \in [from : PageStarts(doc), head : PageStarts(doc)]
    /\ sel.from <= sel.head
    /\ prevFirst \in BOOLEAN
    /\ (FirstPageHasContent(doc) => prevFirst)
    /\ steps = 0
    /\ nextId = FreshId(doc)
    /\ budget \in Budgets
    /\ width \in Widths
    /\ ops = <<>>
    /\ search = NoSearch
    /\ options = NoOptions
    /\ surface = NoSurface
    /\ call = NoCall

Count(n) == Min(n, MaxSteps)

\* run, line 600: removeElementsWithDuplicateId collects the operations, sorts
\* them and applies them to the transaction.
removeElementsWithDuplicateId ==
    /\ pc = "start"
    /\ ops' = DuplicateOperations(doc)
    /\ LET r == ApplyOperations(ops', [doc |-> doc, mapping |-> <<>>,
                                        steps |-> 0, nid |-> nextId])
       IN  /\ doc' = r.doc
           /\ steps' = Count(r.steps)
           /\ nextId' = r.nid
    /\ pc' = "route"
    /\ UNCHANGED <<doc0, flags, sel, prevFirst, budget, width, search, options, surface, call>>

\* doc.content.findIndex(pos).index: the number of pages that end at or in
\* front of pos
findIndex(d, pos) ==
    Cardinality({k \in 1..Len(Pages(d)) : CloseOf(d, Pages(d)[k]) <= pos})

\* selection.$head.node(1) === doc.lastChild, in the document of the state
HeadInLastPage ==
    LET a == Ancestors(doc0, sel.head)
    IN  a # <<>> /\ a[1] = LastPage(doc0)

\* The test of line 604 with the deleting flag read the wrong way round
EarlyReturnConditionNotDeleting ==
    ~flags.inserting /\ ~flags.deleting /\ HeadInLastPage /\ steps = 0

EarlyReturnCondition ==
    ~flags.inserting /\ flags.deleting /\ HeadInLastPage /\ steps = 0

\* initComputed without its merge
InitComputedNoMerge ==
    /\ pc = "route"
    /\ flags.splitPage
    /\ pc' = "split"
    /\ UNCHANGED <<doc, doc0, flags, sel, prevFirst, steps, nextId, budget, width, ops, search, options, surface, call>>

\* run, line 602: initComputed up to the split loop
InitComputed ==
    /\ pc = "route"
    /\ flags.splitPage
    /\ doc' = mergeDefaultDocument(doc, 1)
    /\ steps' = Count(steps + Len(Pages(doc)) - 1)
    /\ pc' = "split"
    /\ UNCHANGED <<doc0, flags, sel, prevFirst, nextId, budget, width, ops, search, options, surface, call>>

\* run, lines 604-606
EarlyReturn ==
    /\ pc = "route"
    /\ ~flags.splitPage
    /\ EarlyReturnCondition
    /\ pc' = "done"
    /\ UNCHANGED <<doc, doc0, flags, sel, prevFirst, steps, nextId, budget, width, ops, search, options, surface, call>>

\* computed with a merge down to the page of the start of the selection
ComputedToStart ==
    /\ pc = "route"
    /\ ~flags.splitPage
    /\ ~EarlyReturnCondition
    /\ (flags.inserting \/ flags.deleting)
    /\ LET startNumber == findIndex(doc, sel.from) + 1
           curNumber == findIndex(doc, sel.head) + 1
           childCount == Len(Pages(doc))
           merged == IF childCount > 1
                        /\ (childCount # curNumber \/ curNumber # startNumber)
                     THEN mergeDefaultDocument(doc, startNumber)
                     ELSE doc
       IN  /\ doc' = merged
           /\ steps' = Count(steps + childCount - Len(Pages(merged)))
    /\ pc' = "split"
    /\ UNCHANGED <<doc0, flags, sel, prevFirst, nextId, budget, width, ops, search, options, surface, call>>

\* run, line 609: computed up to the split loop
Computed ==
    /\ pc = "route"
    /\ ~flags.splitPage
    /\ ~EarlyReturnCondition
    /\ (flags.inserting \/ flags.deleting)
    /\ LET startNumber == findIndex(doc, sel.from) + 1
           curNumber == findIndex(doc, sel.head) + 1
           childCount == Len(Pages(doc))
           merged == IF childCount > 1
                        /\ (childCount # curNumber \/ curNumber # startNumber)
                     THEN mergeDefaultDocument(doc, curNumber)
                     ELSE doc
       IN  /\ doc' = merged
           /\ steps' = Count(steps + childCount - Len(Pages(merged)))
    /\ pc' = "split"
    /\ UNCHANGED <<doc0, flags, sel, prevFirst, nextId, budget, width, ops, search, options, surface, call>>

\* run, line 608 with neither flag set
NoComputed ==
    /\ pc = "route"
    /\ ~flags.splitPage
    /\ ~EarlyReturnCondition
    /\ ~(flags.inserting \/ flags.deleting)
    /\ pc' = "tail"
    /\ UNCHANGED <<doc, doc0, flags, sel, prevFirst, steps, nextId, budget, width, ops, search, options, surface, call>>

InSplitLoop == pc \in {"split", "split2"}

\* splitDocument with a loop that stops after the first split.
SplitDocumentOnce ==
    /\ InSplitLoop
    /\ LET splitInfo == getNodeHeight(doc, budget, width)
           r == splitPage(doc, splitInfo.pos, splitInfo.depth, nextId)
           after == IF pc = "split2" THEN "end"
                    ELSE IF flags.splitPage THEN "done" ELSE "fix"
       IN  IF splitInfo = Null
           THEN /\ pc' = after
                /\ UNCHANGED <<doc, steps, nextId>>
           ELSE IF ~ValidSplit(doc, splitInfo.pos, splitInfo.depth)
           THEN /\ pc' = "error"
                /\ UNCHANGED <<doc, steps, nextId>>
           ELSE /\ doc' = r.doc
                /\ nextId' = r.nid
                /\ steps' = Count(steps + 1)
                /\ pc' = after
    /\ UNCHANGED <<doc0, flags, sel, prevFirst, budget, width, ops, search, options, surface, call>>

\* splitDocument: one round of the loop.  A round that finds no boundary
\* ends the loop; any other round splits at the boundary and goes round
\* again.  A step that fails throws out of tr.step, and nothing between
\* there and the host catches it: the pass ends in "error" and its
\* transaction is lost.  The loop is not followed beyond MaxPages pages.
SplitDocument ==
    /\ InSplitLoop
    /\ \E splitInfo \in {getNodeHeight(doc, budget, width)} :
          IF splitInfo = Null
          THEN /\ pc' = IF pc = "split2" THEN "end"
                        ELSE IF flags.splitPage THEN "done" ELSE "fix"
               /\ UNCHANGED <<doc, steps, nextId>>
          ELSE IF Len(Pages(doc)) >= MaxPages
          THEN /\ pc' = "beyond"
               /\ UNCHANGED <<doc, steps, nextId>>
          ELSE IF ~ValidSplit(doc, splitInfo.pos, splitInfo.depth)
          THEN /\ pc' = "error"
               /\ UNCHANGED <<doc, steps, nextId>>
          ELSE \E r \in {splitPage(doc, splitInfo.pos, splitInfo.depth, nextId)} :
                  /\ doc' = r.doc
                  /\ nextId' = r.nid
                  /\ steps' = Count(steps + 1)
                  /\ pc' = pc
    /\ UNCHANGED <<doc0, flags, sel, prevFirst, budget, width, ops, search, options, surface, call>>

\* checkNodeAndFix: beforeBlock is only ever a paragraph, so the test
\* beforeBlock.type !== paragraph fails and no step is applied.
checkNodeAndFix(d) == d

CheckNodeAndFix ==
    /\ pc = "fix"
    /\ doc' = checkNodeAndFix(doc)
    /\ pc' = "tail"
    /\ UNCHANGED <<doc0, flags, sel, prevFirst, steps, nextId, budget, width, ops, search, options, surface, call>>

\* run, lines 614-619: tr.insert(tr.doc.content.size - 1, paragraph)
EmptyFirstPage ==
    /\ pc = "tail"
    /\ IF ~FirstPageHasContent(doc) /\ prevFirst
       THEN /\ doc' = InsertAt(doc, Len(doc) - 1,
                               <<Open(PARAGRAPH, NoId, FALSE, 0), Close(PARAGRAPH)>>)
            /\ steps' = Count(steps + 1)
       ELSE UNCHANGED <<doc, steps>>
    /\ pc' = "done"
    /\ UNCHANGED <<doc0, flags, sel, prevFirst, nextId, budget, width, ops, search, options, surface, call>>

\* splitDocument run again on the tree it has just left
SplitAgain ==
    /\ pc = "done"
    /\ flags.splitPage
    /\ pc' = "split2"
    /\ UNCHANGED <<doc, doc0, flags, sel, prevFirst, steps, nextId, budget, width, ops, search, options, surface, call>>

Next ==
    \/ removeElementsWithDuplicateId
    \/ InitComputed
    \/ EarlyReturn
    \/ Computed
    \/ NoComputed
    \/ SplitDocument
    \/ CheckNodeAndFix
    \/ EmptyFirstPage
    \/ SplitAgain

Spec == Init /\ [][Next]_vars

(***************************************************************************)
(* binarySearchTextBreak on its own: the texts, height limits and line      *)
(* widths it is called with, and the call.                                  *)
(***************************************************************************)
MaxText == 16        \* length of the longest text searched
MaxLimit == 2        \* highest height limit, in lines
SearchWidths == {2, 5, 8}

\* The text of n characters with spaces at the places in sp
TextWith(n, sp) == [k \in 1..n |-> IF k \in sp THEN " " ELSE "a"]

\* The texts of up to MaxText characters with up to two spaces
Texts ==
    {TextWith(n, sp) : n \in 1..MaxText,
                       sp \in {{x, y} \ {0} : x \in 0..MaxText, y \in 0..MaxText}}

InitSearch ==
    /\ search \in [fullText : Texts, heightLimit : 0..MaxLimit, width : SearchWidths,
                   called : {FALSE}, offset : {0}]
    /\ doc = <<>> /\ doc0 = <<>> /\ pc = "search"
    /\ flags = [inserting |-> FALSE, deleting |-> FALSE, splitPage |-> FALSE]
    /\ sel = [from |-> 0, head |-> 0]
    /\ prevFirst = FALSE /\ steps = 0 /\ nextId = 1 /\ budget = 1 /\ width = 1
    /\ ops = <<>>
    /\ options = NoOptions
    /\ surface = NoSurface
    /\ call = NoCall

BinarySearchTextBreak ==
    /\ pc = "search"
    /\ ~search.called
    /\ search' = [search EXCEPT
                    !.called = TRUE,
                    !.offset = binarySearchTextBreak(search.fullText, search.heightLimit,
                                                     search.width)]
    /\ UNCHANGED <<doc, doc0, pc, flags, sel, prevFirst, steps, nextId, budget, width,
                   ops, options, surface, call>>

SpecBS == InitSearch /\ [][BinarySearchTextBreak]_vars

(***************************************************************************)
(* PageExtension.onBeforeCreate                                            *)
(***************************************************************************)
MaxDim == 2          \* largest bodyHeight / bodyWidth configured

\* The values an option is configured with: undefined (missing), null, a
\* string, NaN and the numbers -1 .. MaxDim.
OptionValues ==
    {Value(k, 0) : k \in {"undefined", "null", "string", "NaN"}}
    \cup {Value("number", n) : n \in -1..MaxDim}

\* typeof v
TypeOf(v) ==
    CASE v.kind = "null" -> "object"
      [] v.kind = "NaN" -> "number"
      [] OTHER -> v.kind

\* v <= 0 for a v whose typeof is number: false for NaN
LessEqZero(v) == v.kind = "number" /\ v.value <= 0

InitOptions ==
    /\ options \in [bodyHeight : OptionValues, bodyWidth : OptionValues,
                    outcome : {"none"}, surface : {FALSE}]
    /\ doc = <<>> /\ doc0 = <<>> /\ pc = "create"
    /\ flags = [inserting |-> FALSE, deleting |-> FALSE, splitPage |-> FALSE]
    /\ sel = [from |-> 0, head |-> 0]
    /\ prevFirst = FALSE /\ steps = 0 /\ nextId = 1 /\ budget = 1 /\ width = 1
    /\ ops = <<>>
    /\ search = NoSearch
    /\ surface = NoSurface
    /\ call = NoCall

\* onBeforeCreate: the error it throws, or "created" with the measurement
\* surface built by buildComputedHtml.
onBeforeCreate ==
    /\ pc = "create"
    /\ options.outcome = "none"
    /\ LET bodyHeight == options.bodyHeight
           bodyWidth == options.bodyWidth
           outcome ==
             IF bodyHeight.kind \in {"undefined", "null"} THEN "bodyHeight is required"
             ELSE IF bodyWidth.kind \in {"undefined", "null"} THEN "bodyWidth is required"
             ELSE IF TypeOf(bodyHeight) # "number" \/ LessEqZero(bodyHeight)
             THEN "bodyHeight must be a positive number"
             ELSE IF TypeOf(bodyWidth) # "number" \/ LessEqZero(bodyWidth)
             THEN "bodyWidth must be a positive number"
             ELSE "created"
       IN  options' = [options EXCEPT !.outcome = outcome,
                                      !.surface = (outcome = "created")]
    /\ UNCHANGED <<doc, doc0, pc, flags, sel, prevFirst, steps, nextId, budget, width,
                   ops, search, surface, call>>

SpecInit == InitOptions /\ [][onBeforeCreate]_vars

(***************************************************************************)
(* The measurement surface: the scratch iframe of core.ts, the lookup of   *)
(* a node's element by getNodeHeight, and the caches in front of the       *)
(* measurements.                                                           *)
(***************************************************************************)
MaxBuilds == 3       \* buildComputedHtml is followed up to this many builds
MaxStyle == 2        \* style environments: a character is 1 .. MaxStyle pixels wide
MaxHtml == 2         \* fragments measured: texts of 1 .. MaxHtml characters

SurfaceIds == {1, 2}

\* computedspan.getBoundingClientRect().width for a text of html characters,
\* in a surface built with the styles `style`
Measure(html, style) == html * style
\* getDomHeight(computedspan): the height of one line in that surface
SpanHeight(style) == style
\* getHTMLFromFragment(Node.fromJSON(schema, doc), schema) for a paragraph of
\* doc characters: the length of <p>..</p>; no surface is involved.
Html(d) == d + 7

NoEntries == [h \in 1..MaxHtml |-> 0]

\* The state onBeforeCreate leaves: buildComputedHtml has run once.  The
\* iframe has a document or not (buildComputedHtml returns at `if
\* (!iframeDoc) return` without computedspan and computeddiv).
InitSurface ==
    /\ surface \in [iframeDoc : BOOLEAN, style : 1..MaxStyle, builds : {1},
                    scratch : {NoId}, dimensionCache : {NoEntries},
                    valueCache : {0}, htmlCache : {NoEntries},
                    call : {"buildComputedHtml"}, type : {PAGE}, key : {0},
                    result : {0}, dom : {"none"}, raised : {FALSE}]
    /\ doc = <<>> /\ doc0 = <<>> /\ pc = "surface"
    /\ flags = [inserting |-> FALSE, deleting |-> FALSE, splitPage |-> FALSE]
    /\ sel = [from |-> 0, head |-> 0]
    /\ prevFirst = FALSE /\ steps = 0 /\ nextId = 1 /\ budget = 1 /\ width = 1
    /\ ops = <<>>
    /\ search = NoSearch
    /\ options = NoOptions
    /\ call = NoCall

SurfaceUnchanged ==
    UNCHANGED <<doc, doc0, pc, flags, sel, prevFirst, steps, nextId, budget, width,
                ops, search, options, call>>

\* A call that returns `result` for the argument `key`.
Returned(fn, key, result) ==
    [surface EXCEPT !.call = fn, !.key = key, !.result = result,
                    !.type = PAGE, !.dom = "none"]

\* recomputeComputedHtml: buildComputedHtml(this.options).  The old iframe
\* is removed and a new one is made with the styles of the moment; the
\* three caches are module constants that nothing clears.
BuildComputedHtml ==
    /\ pc = "surface" /\ ~surface.raised
    /\ surface.builds < MaxBuilds
    /\ \E iframeDoc \in BOOLEAN, style \in 1..MaxStyle :
         surface' = [Returned("buildComputedHtml", 0, 0) EXCEPT
                       !.iframeDoc = iframeDoc, !.style = style,
                       !.builds = @ + 1, !.scratch = NoId]
    /\ SurfaceUnchanged

\* appendTransaction, first statement: removeAbsentHtmlH assigns to
\* computeddiv.innerHTML without a test for computeddiv.
RemoveAbsentHtmlH ==
    /\ pc = "surface" /\ ~surface.raised
    /\ surface' = [Returned("removeAbsentHtmlH", 0, 0) EXCEPT
                     !.scratch = IF surface.iframeDoc THEN NoId ELSE @,
                     !.raised = ~surface.iframeDoc]
    /\ SurfaceUnchanged

\* getAbsentHtmlH(node, schema): the element found in the scratch surface
\* for the node with this id; dataId: the html the schema renders for the
\* node carries data-id.
getAbsentHtmlH(id, dataId) ==
    IF surface.iframeDoc /\ dataId THEN "scratch" ELSE "null"

\* The callback of getNodeHeight for one node: the element is looked up in
\* the live surface, for a node that is not a page it is looked up in the
\* scratch surface when the live surface has none, and the decision function
\* is called with what was found.  Every decision function but the page's
\* starts with getDomHeight(dom), which dereferences dom.
VisitNode ==
    /\ pc = "surface" /\ ~surface.raised
    /\ \E type \in {PAGE, PARAGRAPH}, id \in SurfaceIds, live \in BOOLEAN,
          dataId \in BOOLEAN :
         LET absent == ~live /\ type # PAGE
             dom == IF live THEN "live"
                    ELSE IF type # PAGE THEN getAbsentHtmlH(id, dataId)
                    ELSE "null"
         IN  surface' = [Returned("visit", id, 0) EXCEPT
                           !.type = type,
                           !.dom = dom,
                           !.scratch = IF absent /\ surface.iframeDoc THEN id ELSE @,
                           !.raised = (type # PAGE /\ dom = "null")]
    /\ SurfaceUnchanged

\* computedWidth(html, cache)
ComputedWidth ==
    /\ pc = "surface" /\ ~surface.raised
    /\ \E html \in 1..MaxHtml, cache \in BOOLEAN :
         IF surface.dimensionCache[html] # 0
         THEN surface' = Returned("computedWidth", html, surface.dimensionCache[html])
         ELSE IF surface.iframeDoc
         THEN surface' = [Returned("computedWidth", html, Measure(html, surface.style))
                            EXCEPT !.dimensionCache[html] =
                                     IF cache THEN Measure(html, surface.style) ELSE @]
         ELSE surface' = Returned("computedWidth", html, 0)
    /\ SurfaceUnchanged

\* getDefault(): getDomHeight(computedspan) dereferences computedspan
GetDefault ==
    /\ pc = "surface" /\ ~surface.raised
    /\ IF surface.valueCache # 0
       THEN surface' = Returned("getDefault", 0, surface.valueCache)
       ELSE IF surface.iframeDoc
       THEN surface' = [Returned("getDefault", 0, SpanHeight(surface.style))
                          EXCEPT !.valueCache = SpanHeight(surface.style)]
       ELSE surface' = [Returned("getDefault", 0, 0) EXCEPT !.raised = TRUE]
    /\ SurfaceUnchanged

\* generateHTML(doc, schema)
GenerateHTML ==
    /\ pc = "surface" /\ ~surface.raised
    /\ \E d \in 1..MaxHtml :
         IF surface.htmlCache[d] # 0
         THEN surface' = Returned("generateHTML", d, surface.htmlCache[d])
         ELSE surface' = [Returned("generateHTML", d, Html(d))
                            EXCEPT !.htmlCache[d] = Html(d)]
    /\ SurfaceUnchanged

NextSurface ==
    \/ BuildComputedHtml
    \/ RemoveAbsentHtmlH
    \/ VisitNode
    \/ ComputedWidth
    \/ GetDefault
    \/ GenerateHTML

SpecSurface == InitSurface /\ [][NextSurface]_vars

(***************************************************************************)
(* mergeDefaultDocument on its own: documents of up to MaxMergePages pages *)
(* and every count                                                         *)
(***************************************************************************)
MaxMergePages == 3   \* pages of the document that is merged

\* One character per block, so that the order of the content shows.
Letters == <<"a", "b", "c", "d", "e", "f", "g", "h", "i", "j">>

Block(t, ext) == [type |-> t, ext |-> ext]

\* What a page holds: nothing, or one or two blocks, the first of which is a
\* continuation (extend: true) or not.
MergeShapes ==
    {<<>>} \cup {<<Block(t, e)>> : t \in {PARAGRAPH, ORDEREDLIST}, e \in BOOLEAN}
    \cup {<<Block(PARAGRAPH, e), Block(ORDEREDLIST, FALSE)>> : e \in BOOLEAN}
    \cup {<<Block(ORDEREDLIST, e), Block(PARAGRAPH, FALSE)>> : e \in BOOLEAN}

\* Blocks b .. of page p: block b has id 100 p + 10 b and the letter
\* 2 (p - 1) + b.
RECURSIVE MergeBlocks(_, _, _)
MergeBlocks(shape, p, b) ==
    IF b > Len(shape) THEN <<>>
    ELSE BlockTokens([type |-> shape[b].type,
                      texts |-> << <<Letters[2 * (p - 1) + b]>> >>],
                     100 * p + 10 * b, 100 * p + 10 * b + 1, shape[b].ext, 1)
         \o MergeBlocks(shape, p, b + 1)

RECURSIVE MergePages(_, _)
MergePages(shapes, p) ==
    IF p > Len(shapes) THEN <<>>
    ELSE PageTokens(p, p, MergeBlocks(shapes[p], p, 1)) \o MergePages(shapes, p + 1)

InitMerge ==
    /\ \E n \in 1..MaxMergePages : \E shapes \in [1..n -> MergeShapes] :
         doc = MergePages(shapes, 1)
    /\ doc0 = doc
    /\ call \in [count : 1..MaxMergePages, joins : {0}, depths : {<<>>}]
    /\ pc = "merge"
    /\ flags = [inserting |-> FALSE, deleting |-> FALSE, splitPage |-> FALSE]
    /\ sel = [from |-> 0, head |-> 0]
    /\ prevFirst = FALSE /\ steps = 0 /\ nextId = 1 /\ budget = 1 /\ width = 1
    /\ ops = <<>>
    /\ search = NoSearch
    /\ options = NoOptions
    /\ surface = NoSurface

\* tr.doc.content.childCount > count, with one page more left over.
MergeConditionLate(d, count) == Len(Pages(d)) > count + 1

\* The test of the while loop: tr.doc.content.childCount > count
MergeCondition(d, count) == Len(Pages(d)) > count

\* mergeDefaultDocument(count): one round of its loop, or its end.
MergeDefaultDocument ==
    /\ pc = "merge"
    /\ IF MergeCondition(doc, call.count)
       THEN LET depth == IF canMergeDeep(doc) THEN 2 ELSE 1
            IN  /\ doc' = join(doc, LastPage(doc) - 1, depth)
                /\ call' = [call EXCEPT !.joins = @ + 1,
                                        !.depths = Append(@, depth)]
                /\ steps' = Count(steps + 1)
                /\ pc' = pc
       ELSE /\ pc' = "merged"
            /\ UNCHANGED <<doc, call, steps>>
    /\ UNCHANGED <<doc0, flags, sel, prevFirst, nextId, budget, width, ops, search,
                   options, surface>>

SpecMerge == InitMerge /\ [][MergeDefaultDocument]_vars

(***************************************************************************)
(* UnitConversion: lengths are exact fractions n / d; toFixed() rounds to  *)
(* the nearest integer.                                                    *)
(***************************************************************************)
MaxInches == 11      \* lengths converted: 0 .. MaxInches inches

\* The values of arrDPI[0]: window.screen.deviceXDPI where the browser has
\* it, the offsetWidth of a 1in element elsewhere.
DPIs == {72, 96, 120, 144, 192, 288}

Rat(n, d) == [n |-> n, d |-> d]
RatEq(a, b) == a.n * b.d = b.n * a.d

\* Number((n / d).toFixed()) for n >= 0, d > 0
ToFixed(n, d) == (2 * n + d) \div (2 * d)

\* pxConversionMm(value): Number((value / arrDPI[0] * 25.4).toFixed())
pxConversionMm(value, dpi) == Rat(ToFixed(value.n * 254, value.d * dpi * 10), 1)
\* mmConversionPx(value): Number((value / 25.4 * arrDPI[0]).toFixed())
mmConversionPx(value, dpi) == Rat(ToFixed(value.n * 10 * dpi, value.d * 254), 1)
\* ptConversionPx(value): (value * 96) / 72
ptConversionPx(value, dpi) == Rat(value.n * 96, value.d * 72)
\* pxConversionPt(value): (value * 72) / 96
pxConversionPt(value, dpi) == Rat(value.n * 72, value.d * 96)

NoConversion == [dpi |-> 0, inches |-> 0, done |-> FALSE,
                 mmPx |-> Rat(0, 1), ptPx |-> Rat(0, 1),
                 pxMm |-> Rat(0, 1), pxPt |-> Rat(0, 1)]

\* new UnitConversion() in a browser, and a length of `inches` inches
InitUnits ==
    /\ call \in {[NoConversion EXCEPT !.dpi = dpi, !.inches = k] :
                    dpi \in DPIs, k \in 0..MaxInches}
    /\ doc = <<>> /\ doc0 = <<>> /\ pc = "units"
    /\ flags = [inserting |-> FALSE, deleting |-> FALSE, splitPage |-> FALSE]
    /\ sel = [from |-> 0, head |-> 0]
    /\ prevFirst = FALSE /\ steps = 0 /\ nextId = 1 /\ budget = 1 /\ width = 1
    /\ ops = <<>>
    /\ search = NoSearch
    /\ options = NoOptions
    /\ surface = NoSurface

\* The length given in millimetres (25.4 * inches) and in points
\* (72 * inches) is converted to pixels, and each result is converted back.
Convert ==
    /\ pc = "units"
    /\ ~call.done
    /\ LET mmPx == mmConversionPx(Rat(254 * call.inches, 10), call.dpi)
           ptPx == ptConversionPx(Rat(72 * call.inches, 1), call.dpi)
       IN  call' = [call EXCEPT !.done = TRUE,
                                !.mmPx = mmPx, !.ptPx = ptPx,
                                !.pxMm = pxConversionMm(mmPx, call.dpi),
                                !.pxPt = pxConversionPt(ptPx, call.dpi)]
    /\ UNCHANGED <<doc, doc0, pc, flags, sel, prevFirst, steps, nextId, budget, width,
                   ops, search, options, surface>>

SpecUnits == InitUnits /\ [][Convert]_vars

(***************************************************************************)
(* An incremental pass over a document of up to MaxMergePages pages of one *)
(* block at most: the pass of run with inserting or deleting set and       *)
(* without the splitPage flag, the selection anywhere.                     *)
(***************************************************************************)
InitIncremental ==
    /\ \E n \in 1..MaxMergePages :
         \E shapes \in [1..n -> {shape \in MergeShapes : Len(shape) <= 1}] :
            doc = MergePages(shapes, 1)
    /\ doc0 = doc
    /\ pc = "start"
    /\ flags \in {f \in Flags : ~f.splitPage /\ (f.inserting \/ f.deleting)}
    /\ sel \in [from : PageStarts(doc), head : PageStarts(doc)]
    /\ sel.from <= sel.head
    /\ prevFirst = TRUE
    /\ steps = 0
    /\ nextId = FreshId(doc)
    /\ budget = 2 /\ width = 2
    /\ ops = <<>>
    /\ search = NoSearch
    /\ options = NoOptions
    /\ surface = NoSurface
    /\ call = NoCall

NextIncremental ==
    \/ removeElementsWithDuplicateId
    \/ EarlyReturn
    \/ Computed
    \/ SplitDocument
    \/ CheckNodeAndFix
    \/ EmptyFirstPage

SpecIncremental == InitIncremental /\ [][NextIncremental]_vars

(***************************************************************************)
(* checkNodeAndFix on its own: one page of paragraphs, each of them empty  *)
(* or not and a continuation (extend: true) or not, as Enter in a          *)
(* continuation paragraph leaves them.                                     *)
(***************************************************************************)
MaxRepairBlocks == 3    \* paragraphs of the page that is repaired

RECURSIVE RepairBlocks(_, _, _)
RepairBlocks(exts, empties, b) ==
    IF b > Len(exts) THEN <<>>
    ELSE TextBlock(PARAGRAPH, b + 1, exts[b], IF empties[b] THEN <<>> ELSE Short)
         \o RepairBlocks(exts, empties, b + 1)

InitRepair ==
    /\ \E n \in 1..MaxRepairBlocks :
         \E exts \in [1..n -> BOOLEAN], empties \in [1..n -> BOOLEAN] :
            doc = PageTokens(1, 1, RepairBlocks(exts, empties, 1))
    /\ doc0 = doc
    /\ pc = "fix"
    /\ flags = [inserting |-> TRUE, deleting |-> FALSE, splitPage |-> FALSE]
    /\ sel = [from |-> 1, head |-> 1]
    /\ prevFirst = TRUE /\ steps = 0 /\ nextId = FreshId(doc)
    /\ budget = 4 /\ width = 2
    /\ ops = <<>>
    /\ search = NoSearch
    /\ options = NoOptions
    /\ surface = NoSurface
    /\ call = NoCall

SpecRepair == InitRepair /\ [][CheckNodeAndFix]_vars

(***************************************************************************)
(* The plugin state: PageState.transform applied to one transaction after  *)
(* another (state.apply), and the flags the pass of appendTransaction      *)
(* reads from it.  A transaction is the set of the metas it carries; each  *)
(* of them is set with the value true.                                     *)
(***************************************************************************)
MaxApplied == 4     \* transactions applied one after another

Metas == {"inserting", "deleting", "splitPage"}
BodyOptions == {1, 2}   \* two option objects

\* tr.getMeta(key): the value set, or undefined
getMeta(tr, key) == IF key \in tr THEN Value("boolean", TRUE) ELSE Value("undefined", 0)

\* value ?? false
OrFalse(v) == IF v.kind = "undefined" THEN FALSE ELSE v.value

PageState(bodyOptions, deleting, inserting, split) ==
    [bodyOptions |-> bodyOptions, deleting |-> deleting, inserting |-> inserting,
     splitPage |-> split]

\* A transform that keeps the flags that are set
transformRetaining(state, tr) ==
    PageState(state.bodyOptions,
              state.deleting \/ OrFalse(getMeta(tr, "deleting")),
              state.inserting \/ OrFalse(getMeta(tr, "inserting")),
              state.splitPage \/ OrFalse(getMeta(tr, "splitPage")))

\* PageState.transform
transform(state, tr) ==
    LET split == OrFalse(getMeta(tr, "splitPage"))
        inserting == OrFalse(getMeta(tr, "inserting"))
        deleting == OrFalse(getMeta(tr, "deleting"))
    IN  PageState(state.bodyOptions, deleting, inserting, split)

\* Plugin state.init; call holds the plugin state, the transaction applied
\* last and the one before it, and the option object of the plugin.
InitState ==
    /\ \E bodyOption \in BodyOptions :
          call = [state |-> PageState(bodyOption, FALSE, FALSE, FALSE),
                  bodyOption |-> bodyOption, tr |-> {}, prev |-> {}, applied |-> 0]
    /\ flags = [inserting |-> FALSE, deleting |-> FALSE, splitPage |-> FALSE]
    /\ pc = "state"
    /\ doc = <<>> /\ doc0 = <<>>
    /\ sel = [from |-> 0, head |-> 0]
    /\ prevFirst = FALSE /\ steps = 0 /\ nextId = 1 /\ budget = 1 /\ width = 1
    /\ ops = <<>>
    /\ search = NoSearch
    /\ options = NoOptions
    /\ surface = NoSurface

\* state.apply(tr, prevState), and the page state that appendTransaction
\* hands to the pass: this.getState(state)
Apply ==
    /\ pc = "state"
    /\ call.applied < MaxApplied
    /\ \E tr \in SUBSET Metas :
          call' = [call EXCEPT !.state = transform(call.state, tr),
                               !.tr = tr, !.prev = call.tr, !.applied = @ + 1]
    /\ flags' = [inserting |-> call'.state.inserting,
                 deleting |-> call'.state.deleting,
                 splitPage |-> call'.state.splitPage]
    /\ UNCHANGED <<doc, doc0, pc, sel, prevFirst, steps, nextId, budget, width, ops, search, options, surface>>

SpecState == InitState /\ [][Apply]_vars

(***************************************************************************)
(* The detector: a key press, the edit it makes, and the chain of          *)
(* PageDetector.update, the transaction it dispatches and the pass of      *)
(* appendTransaction on that transaction, after which the view runs        *)
(* update again.  doc0 is the document of prevState; call holds            *)
(* window.stepStatus, the rounds of the chain and the transactions that    *)
(* carried the deleting meta since the last key press, the key presses     *)
(* and the variable composition of page-plugin.ts.                         *)
(***************************************************************************)
MaxRounds == 4      \* the chain is followed for this many dispatches
MaxEdits == 2       \* key presses in a behaviour

Outcome(d, nid, end) == [doc |-> d, nid |-> nid, end |-> end]

\* The one element of a set of one element: the value of an expression
\* computed once.
Only(S) == CHOOSE x \in S : TRUE

\* splitDocument as a function of the document: the loop to its end; a
\* round that leaves the document as it is, or a document of MaxPages pages
\* with a boundary left, stands for a loop without end ("beyond"), a step
\* that fails for the exception it throws ("error").
RECURSIVE splitDocument(_, _, _, _)
SplitRound(d, splitInfo, nid, bud, w) ==
    IF splitInfo = Null THEN Outcome(d, nid, "done")
    ELSE IF Len(Pages(d)) >= MaxPages THEN Outcome(d, nid, "beyond")
    ELSE IF ~ValidSplit(d, splitInfo.pos, splitInfo.depth)
    THEN Outcome(d, nid, "error")
    ELSE Only({IF r.doc = d THEN Outcome(d, nid, "beyond")
               ELSE splitDocument(r.doc, r.nid, bud, w) :
               r \in {splitPage(d, splitInfo.pos, splitInfo.depth, nid)}})

splitDocument(d, nid, bud, w) ==
    Only({SplitRound(d, splitInfo, nid, bud, w) :
          splitInfo \in {getNodeHeight(d, bud, w)}})

\* initComputed, lines 596-628, on the document r.doc the duplicate ids
\* are taken out of: the merge back and the split loop.
initComputed(r, selection, fl, bud, w) ==
    LET startNumber == findIndex(r.doc, selection.from) + 1
        curNumber == findIndex(r.doc, selection.head) + 1
        childCount == Len(Pages(r.doc))
    IN  IF fl.splitPage
        THEN Only({splitDocument(merged, r.nid, bud, w) :
                   merged \in {mergeDefaultDocument(r.doc, 1)}})
        ELSE IF ~(fl.inserting \/ fl.deleting)
        THEN Outcome(r.doc, r.nid, "done")
        ELSE Only({splitDocument(merged, r.nid, bud, w) :
                   merged \in {checkNodeAndFix(
                       IF childCount > 1
                          /\ (childCount # curNumber \/ curNumber # startNumber)
                       THEN mergeDefaultDocument(r.doc, curNumber)
                       ELSE r.doc)}})

\* The end of run: the paragraph put into a first page left empty.
ReturnedTransaction(computed, prev) ==
    IF /\ computed.end = "done"
       /\ ~FirstPageHasContent(computed.doc) /\ FirstPageHasContent(prev)
    THEN Outcome(InsertAt(computed.doc, Len(computed.doc) - 1,
                          <<Open(PARAGRAPH, NoId, FALSE, 0), Close(PARAGRAPH)>>),
                 computed.nid, "done")
    ELSE computed

Routed(r, headInLastPage, selection, fl, prev, bud, w) ==
    IF ~fl.splitPage /\ ~fl.inserting /\ fl.deleting /\ headInLastPage /\ r.steps = 0
    THEN Outcome(r.doc, r.nid, "done")
    ELSE Only({ReturnedTransaction(computed, prev) :
               computed \in {initComputed(r, selection, fl, bud, w)}})

\* PageComputedContext.run as a function: the document of the transaction
\* it returns, for the document d and the selection of the state, the page
\* state fl and the document prev of prevState.
run(d, selection, fl, prev, nid, bud, w) ==
    LET a == Ancestors(d, selection.head)
    IN  Only({Routed(r, a # <<>> /\ a[1] = LastPage(d), selection, fl, prev, bud, w) :
              r \in {ApplyOperations(DuplicateOperations(d),
                         [doc |-> d, mapping |-> <<>>, steps |-> 0, nid |-> nid])}})

\* PageDetector.isOverflown for the page the selection is in:
\* pageBody.scrollHeight > getBodyHeight(bodyOption)
isOverflown(d, selection, bud, w) ==
    LET a == Ancestors(d, selection.head)
    IN  a # <<>> /\ SumHeights(d, Children(d, a[1]), w) > bud

\* The first text block behind position pos in the page of pos (its open
\* token), 0 when there is none: where the key press edits.
EditedBlock(d, pos) ==
    LET a == Ancestors(d, pos)
        blocks == {i \in 1..Len(d) : /\ IsOpen(d, i)
                                     /\ i > pos /\ i < CloseOf(d, a[1])
                                     /\ InlineContent(d[i].type)}
    IN  IF a = <<>> \/ blocks = {} THEN 0
        ELSE CHOOSE i \in blocks : \A j \in blocks : i <= j

NoFlags == [inserting |-> FALSE, deleting |-> FALSE, splitPage |-> FALSE]

InitDetector ==
    /\ \E ks \in KindSeqs, brk \in 0..MaxBlocks :
          /\ brk <= Len(ks)
          /\ doc = BuildDoc([k \in 1..Len(ks) |-> Kinds[ks[k]]], brk, FALSE, "none")
    /\ doc0 = doc
    /\ pc = "idle"
    /\ flags = NoFlags
    /\ sel \in [from : PageStarts(doc), head : PageStarts(doc)]
    /\ sel.from = sel.head
    /\ call = [stepStatus |-> FALSE, rounds |-> 0, deleting |-> 0, edits |-> 0,
               composition |-> FALSE]
    /\ prevFirst = FirstPageHasContent(doc)
    /\ steps = 0
    /\ nextId = FreshId(doc)
    /\ budget \in Budgets
    /\ width \in Widths
    /\ ops = <<>>
    /\ search = NoSearch
    /\ options = NoOptions
    /\ surface = NoSurface

DetectorUnchanged ==
    UNCHANGED <<sel, prevFirst, steps, budget, width, ops, search, options, surface>>

\* handleKeyDown: Backspace sets window.stepStatus, any other key clears it
handleKeyDown ==
    /\ pc = "idle"
    /\ call.edits < MaxEdits
    /\ \E backspace \in BOOLEAN :
          call' = [call EXCEPT !.stepStatus = backspace, !.rounds = 0,
                               !.deleting = 0, !.edits = @ + 1]
    /\ pc' = "edit"
    /\ UNCHANGED <<doc, doc0, flags, nextId>>
    /\ DetectorUnchanged

\* The transaction of the key press: Backspace takes the first character
\* of the edited block away, any other key puts a character in front of it.
\* The transaction carries no meta, so that the pass appended to it sees no
\* flag.
Edit ==
    /\ pc = "edit"
    /\ LET block == EditedBlock(doc, sel.head)
           edited == IF block = 0 THEN doc
                     ELSE IF ~call.stepStatus THEN InsertAt(doc, block, <<Ch("a")>>)
                     ELSE IF IsText(doc, block + 1)
                     THEN RemoveRange(doc, block, block + 1)
                     ELSE doc
       IN  \E r \in {run(edited, sel, transform(PageState(0, FALSE, FALSE, FALSE), {}),
                          doc, nextId, budget, width)} :
              /\ doc' = r.doc
              /\ nextId' = r.nid
              /\ doc0' = doc
    /\ pc' = "update"
    /\ UNCHANGED <<flags, call>>
    /\ DetectorUnchanged

\* handleDOMEvents, lines 101-110: the events of an input method
compositionstart ==
    /\ pc = "idle"
    /\ ~call.composition
    /\ call' = [call EXCEPT !.composition = TRUE]
    /\ UNCHANGED <<doc, doc0, pc, flags, nextId>>
    /\ DetectorUnchanged

compositionend ==
    /\ pc = "idle"
    /\ call.composition
    /\ call' = [call EXCEPT !.composition = FALSE]
    /\ UNCHANGED <<doc, doc0, pc, flags, nextId>>
    /\ DetectorUnchanged

\* update without its first line
Detected(composition, inserting, deleting) == inserting \/ deleting

\* lines 32-33 and 60: what makes update dispatch a transaction
Detects(composition, inserting, deleting) ==
    ~composition /\ (inserting \/ deleting)

\* PageDetector.update(view, prevState), lines 31-66
update ==
    /\ pc = "update"
    /\ LET deleting == call.stepStatus
           inserting == isOverflown(doc, sel, budget, width)
       IN  IF doc = doc0 \/ ~Detects(call.composition, inserting, deleting)
           THEN /\ pc' = "idle"
                /\ UNCHANGED <<flags, call>>
           ELSE IF call.rounds >= MaxRounds
           THEN /\ pc' = "more"
                /\ UNCHANGED <<flags, call>>
           ELSE /\ flags' = [inserting |-> inserting, deleting |-> deleting,
                             splitPage |-> FALSE]
                /\ call' = [call EXCEPT
                              !.stepStatus = IF deleting THEN FALSE ELSE @,
                              !.rounds = @ + 1,
                              !.deleting = @ + (IF deleting THEN 1 ELSE 0)]
                /\ pc' = "dispatch"
    /\ UNCHANGED <<doc, doc0, nextId>>
    /\ DetectorUnchanged

\* view.dispatch(tr): the transaction is applied, the pass of
\* appendTransaction runs with the flags of its metas, and the view is
\* updated, which runs update with the state there was.
appendTransaction ==
    /\ pc = "dispatch"
    /\ \E r \in {run(doc, sel, flags, doc, nextId, budget, width)} :
          /\ doc' = r.doc
          /\ nextId' = r.nid
          /\ pc' = IF r.end = "done" THEN "update" ELSE r.end
    /\ doc0' = doc
    /\ UNCHANGED <<flags, call>>
    /\ DetectorUnchanged

NextDetector ==
    \/ handleKeyDown
    \/ compositionstart
    \/ compositionend
    \/ Edit
    \/ update
    \/ appendTransaction

SpecDetector == InitDetector /\ [][NextDetector]_vars

(***************************************************************************)
(* The command recomputeComputedHtml beside the detector: every invocation *)
(* builds the surface and leaves a timer of 1000 ms, whose callback        *)
(* dispatches a transaction with the splitPage meta.  call counts the      *)
(* invocations, the timers that wait and the transactions with the         *)
(* splitPage meta that were dispatched.                                     *)
(***************************************************************************)
MaxInvocations == 2     \* invocations of the command in a behaviour

\* Kinds of block the documents of this specification are made of
ReflowKinds == {1, 2, 3, 8}

InitReflow ==
    /\ \E ks \in KindSeqs, brk \in 0..MaxBlocks :
          /\ Len(ks) = 1
          /\ ks[1] \in ReflowKinds
          /\ brk <= Len(ks)
          /\ doc = BuildDoc([k \in 1..Len(ks) |-> Kinds[ks[k]]], brk, FALSE, "none")
    /\ doc0 = doc
    /\ pc = "idle"
    /\ flags = NoFlags
    /\ sel \in [from : PageStarts(doc), head : PageStarts(doc)]
    /\ sel.from = sel.head
    /\ call = [stepStatus |-> FALSE, rounds |-> 0, deleting |-> 0, edits |-> 0,
               composition |-> FALSE, invoked |-> 0, pending |-> 0, reflows |-> 0]
    /\ prevFirst = FirstPageHasContent(doc)
    /\ steps = 0
    /\ nextId = FreshId(doc)
    /\ budget \in Budgets
    /\ width \in Widths
    /\ ops = <<>>
    /\ search = NoSearch
    /\ options = NoOptions
    /\ surface = NoSurface

\* The work of an event is over: the chain has ended, or an exception has
\* ended it ("error", and "more" for a chain that is not followed further).
\* A pass that does not end ("beyond") keeps the thread, and no event
\* handler and no timer runs.
Settled == pc \in {"idle", "error", "more"}

\* recomputeComputedHtml, lines 152-177: buildComputedHtml and setTimeout
recomputeComputedHtml ==
    /\ Settled
    /\ call.invoked < MaxInvocations
    /\ surface' = [surface EXCEPT !.builds = @ + 1, !.scratch = NoId]
    /\ call' = [call EXCEPT !.invoked = @ + 1, !.pending = @ + 1]
    /\ UNCHANGED <<doc, doc0, pc, flags, sel, prevFirst, steps, nextId, budget, width,
                   ops, search, options>>

\* The flags a pass reads in the page state
FlagsOf(state) ==
    [inserting |-> state.inserting, deleting |-> state.deleting,
     splitPage |-> state.splitPage]

\* The callback of the timer:
\* editor.view.dispatch(editor.state.tr.setMeta('splitPage', true))
Timeout ==
    /\ Settled
    /\ call.pending > 0
    /\ flags' = FlagsOf(transform(PageState(0, FALSE, FALSE, FALSE), {"splitPage"}))
    /\ call' = [call EXCEPT !.pending = @ - 1, !.reflows = @ + 1, !.rounds = 0]
    /\ pc' = "dispatch"
    /\ UNCHANGED <<doc, doc0, nextId, surface>>
    /\ UNCHANGED <<sel, prevFirst, steps, budget, width, ops, search, options>>

\* A key press of the user, when the work before it is over
KeyDown ==
    /\ Settled
    /\ call.edits < MaxEdits
    /\ \E backspace \in BOOLEAN :
          call' = [call EXCEPT !.stepStatus = backspace, !.rounds = 0,
                               !.deleting = 0, !.edits = @ + 1]
    /\ pc' = "edit"
    /\ UNCHANGED <<doc, doc0, flags, nextId, surface>>
    /\ UNCHANGED <<sel, prevFirst, steps, budget, width, ops, search, options>>

\* The loop of splitDocument that does not end: one more round, which
\* leaves the document as it is (steps tells one round from the next).
SplitDocumentOn ==
    /\ pc = "beyond"
    /\ steps' = 1 - steps
    /\ UNCHANGED <<doc, doc0, pc, flags, sel, prevFirst, nextId, budget, width, ops,
                   search, options, surface, call>>

NextReflow ==
    \/ recomputeComputedHtml
    \/ SplitDocumentOn
    \/ Timeout
    \/ KeyDown
    \/ Edit
    \/ update
    \/ appendTransaction

SpecReflow == InitReflow /\ [][NextReflow]_vars

\* The event loop runs the callback of a timer that is due once the thread
\* is free, and the thread runs the code of an event to its end: Edit,
\* update and appendTransaction are the one step there is where they are
\* enabled, so that weak fairness of each says that its position is left
\* again.  A loop that does not end goes on.
SpecReflowFair ==
    /\ SpecReflow
    /\ WF_vars(Timeout)
    /\ WF_vars(SplitDocumentOn)
    /\ []<>(pc # "edit") /\ []<>(pc # "update") /\ []<>(pc # "dispatch")

(***************************************************************************)
(* The height a page has for content: the options a PageExtension is       *)
(* configured with, the validation of onBeforeCreate, the merge with the   *)
(* defaults and getBodyHeight.  Heights are pixels; a margin is given in   *)
(* half inches, 48 pixels each.                                            *)
(***************************************************************************)
\* bodyHeight as configured: pixels, or NaN
BodyHeights ==
    {Value("NaN", 0)} \cup {Value("number", n) : n \in {1, 96, 97, 126, 127, 1056}}

\* pageLayout.margins as configured: left out, or top and bottom
Margins ==
    {[kind |-> "undefined", top |-> 0, bottom |-> 0]}
    \cup [kind : {"margins"}, top : 0..2, bottom : 0..2]

\* headerHeight / footerHeight as configured: left out, or pixels
BarHeights == {Value("undefined", 0), Value("number", 0), Value("number", 100)}

\* pageNumber as configured: left out, or shown or not at a position
PageNumbers ==
    {[kind |-> "undefined", show |-> FALSE, position |-> "null"]}
    \cup [kind : {"pageNumber"}, show : BOOLEAN, position : {"top", "bottom", "null"}]

\* DEFAULT_PAGE_OPTIONS, part_001 lines 186-212
DEFAULT_PAGE_OPTIONS ==
    [headerHeight |-> Value("number", 30), footerHeight |-> Value("number", 30),
     margins |-> [kind |-> "margins", top |-> 1, bottom |-> 1],
     pageNumber |-> [kind |-> "pageNumber", show |-> FALSE, position |-> "null"]]

\* deepMerge(DEFAULT_PAGE_OPTIONS, this.options): what is configured, and
\* the default for what is left out
deepMerge(defaults, o) ==
    [o EXCEPT !.headerHeight = IF @.kind = "undefined" THEN defaults.headerHeight ELSE @,
              !.footerHeight = IF @.kind = "undefined" THEN defaults.footerHeight ELSE @,
              !.margins = IF @.kind = "undefined" THEN defaults.margins ELSE @,
              !.pageNumber = IF @.kind = "undefined" THEN defaults.pageNumber ELSE @]

\* getBodyHeight, core.ts lines 16-34
getBodyHeight(o) ==
    LET headerHeight == IF o.pageNumber.show /\ o.pageNumber.position = "top"
                        THEN o.headerHeight.value ELSE 0
        footerHeight == IF o.pageNumber.show /\ o.pageNumber.position = "bottom"
                        THEN o.footerHeight.value ELSE 0
        marginHeight == (o.margins.top + o.margins.bottom) * 48
    IN  IF o.bodyHeight.kind = "NaN" THEN o.bodyHeight
        ELSE Value("number",
                   o.bodyHeight.value - marginHeight - (headerHeight + footerHeight))

InitBudget ==
    /\ options \in [bodyHeight : BodyHeights, bodyWidth : {Value("number", 794)},
                    outcome : {"none"}, surface : {FALSE},
                    margins : Margins, headerHeight : BarHeights,
                    footerHeight : {Value("undefined", 0)},
                    pageNumber : PageNumbers]
    /\ doc = <<>> /\ doc0 = <<>> /\ pc = "create"
    /\ flags = [inserting |-> FALSE, deleting |-> FALSE, splitPage |-> FALSE]
    /\ sel = [from |-> 0, head |-> 0]
    /\ prevFirst = FALSE /\ steps = 0 /\ nextId = 1 /\ budget = 1 /\ width = 1
    /\ ops = <<>>
    /\ search = NoSearch
    /\ surface = NoSurface
    /\ call = [height |-> Value("undefined", 0)]

\* The budget of a pass after the initialization:
\* splitContext = new SplitContext(..., getBodyHeight(bodyOptions), ...)
SplitBudget ==
    /\ pc = "create"
    /\ options.outcome = "created"
    /\ call.height.kind = "undefined"
    /\ call' = [height |-> getBodyHeight(deepMerge(DEFAULT_PAGE_OPTIONS, options))]
    /\ UNCHANGED <<doc, doc0, pc, flags, sel, prevFirst, steps, nextId, budget, width,
                   ops, search, options, surface>>

NextBudget ==
    \/ onBeforeCreate
    \/ SplitBudget

SpecBudget == InitBudget /\ [][NextBudget]_vars

(***************************************************************************)
(* Properties of a pass                                                    *)
(***************************************************************************)
\* The nodes of d: the tokens that open one.
Nodes(d) == {i \in 1..Len(d) : IsOpen(d, i)}

\* No two nodes of d carry the same id (a node without an id shares none).
UniqueIds(d) ==
    \A i, j \in Nodes(d) : (i < j /\ d[i].id # NoId) => d[i].id # d[j].id

\* The pass has returned its transaction.
PassDone == pc = "done"

\* C1: the split loop reaches a fixed point after finitely many rounds, for
\* every finite document.  A round is a function of the document alone
\* (getNodeHeight, then splitPage at the boundary it found), so a round that
\* hands back the document it was given is followed by the same round for
\* ever: the loop can only end if every round that splits changes the
\* document.
C1_EveryRoundChangesTheDocument ==
    [][(InSplitLoop /\ pc' = pc) => doc' # doc]_vars

\* C1, the oversized heading: the loop ends while the document is still
\* small; it never reaches MaxPages pages with a boundary still to split at.
C1_LoopEndsBeforeMaxPages == pc # "beyond"

\* C2: a pass over a document in which no two nodes share an id preserves
\* the text of the document, in order, whatever the flags of the pass are.
C2_TextPreserved ==
    (PassDone /\ UniqueIds(doc0)) => DocText(doc) = DocText(doc0)

C2_Witness ==
    /\ PassDone /\ UniqueIds(doc0)
    /\ Len(Pages(doc)) > Len(Pages(doc0))
    /\ DocText(doc0) # <<>>

\* C3: after a pass no two nodes of the document share an id.
C3_NoSharedIdAfterPass == PassDone => UniqueIds(doc)

\* The text blocks inside the node that opens at token i
TextBlocksIn(d, i) ==
    {j \in i..CloseOf(d, i) : IsOpen(d, j) /\ d[j].type \in {PARAGRAPH, HEADING}}

\* The page at token p holds nothing but one text block that is higher than
\* the budget and has no space to be cut at.
SingleUnbreakable(d, p, bud, w) ==
    /\ Cardinality(TextBlocksIn(d, p)) = 1
    /\ \A j \in TextBlocksIn(d, p) :
          /\ DomHeight(d, j, w) > bud
          /\ LastSpaceIndex(TextContent(d, j), Len(TextContent(d, j))) < 0

\* C4: after a pass that has laid the whole document out again, the content
\* of every page is no higher than the budget, except for a page that holds a
\* single unbreakable node higher than the budget.
C4_PagesWithinBudget ==
    (PassDone /\ flags.splitPage) =>
        \A k \in 1..Len(Pages(doc)) :
            \/ DomHeight(doc, Pages(doc)[k], width) <= budget
            \/ SingleUnbreakable(doc, Pages(doc)[k], budget, width)

\* C5: splitDocument run again on the tree it has just left finds no
\* boundary in its first getNodeHeight and applies no step: it ends at once
\* and both the document and the steps of the transaction are as they were.
C5_SecondRunAppliesNoStep ==
    [][pc = "split2" => (pc' = "end" /\ doc' = doc /\ steps' = steps)]_vars

C5_Witness == pc = "end" /\ Len(Pages(doc)) > 1

\* The ordered list that opens at token i is the fragment that continues,
\* at the top of its page, the ordered list that ends the page in front.
ContinuesList(d, i) ==
    /\ d[i].type = ORDEREDLIST /\ d[i].extend
    /\ i > 3 /\ IsOpen(d, i - 1) /\ d[i - 1].type = PAGE
    /\ IsClose(d, i - 2) /\ d[i - 2].type = PAGE
    /\ IsClose(d, i - 3) /\ d[i - 3].type = ORDEREDLIST

\* The fragment that the fragment at token i continues
ContinuedList(d, i) == OpenBefore(d, i - 4, 0)

\* C6: the start of a fragment that continues an ordered list on the next
\* page is the number of items of that list in front of the cut plus one:
\* the start of the fragment before it plus the number of its items.  Other
\* ordered lists of the document do not count.
C6_NumberingContinues ==
    \A i \in Nodes(doc) :
        ContinuesList(doc, i) =>
            doc[i].num = doc[ContinuedList(doc, i)].num
                         + Len(Children(doc, ContinuedList(doc, i)))

\* The node an operation of removeElementsWithDuplicateId acts on
TargetOf(op) == IF op.operation = "delete" THEN op.from ELSE op.from + 1

\* C10: of two nodes that share an id the larger is kept as it is and the
\* operation (a deletion or a new id) acts on the smaller: the node acted on
\* is no larger than the node it shares its id with.
C10_ActsOnTheSmallerNode ==
    pc = "route" =>
        \A k \in 1..Len(ops) :
            \E o \in Nodes(doc0) \ {TargetOf(ops[k])} :
                /\ doc0[o].id = doc0[TargetOf(ops[k])].id
                /\ NodeSize(doc0, o) >= NodeSize(doc0, TargetOf(ops[k]))

(***************************************************************************)
(* Properties of binarySearchTextBreak                                     *)
(***************************************************************************)
\* fullText[offset], counted from 0 as the code counts, is a space
SpaceAt(text, offset) == offset < Len(text) /\ text[offset + 1] = " "

\* The first n characters of text hold no space
SpaceFree(text, n) == \A k \in 1..n : text[k] # " "

\* C7 as it is stated: a non-zero offset falls on a space unless the whole
\* text is shorter than 7 characters.
C7_BreaksAtASpaceUnlessShort ==
    (search.called /\ search.offset # 0) =>
        \/ SpaceAt(search.fullText, search.offset)
        \/ Len(search.fullText) < MinUnbreakable

\* C7, amended: a non-zero offset falls on a space, or is 1 behind the space
\* a text begins with, or is the length of a prefix of more than 7 characters
\* that holds no space.
C7_BreaksAtASpaceOrLongPrefix ==
    (search.called /\ search.offset # 0) =>
        \/ SpaceAt(search.fullText, search.offset)
        \/ (search.offset = 1 /\ search.fullText[1] = " ")
        \/ (search.offset > MinUnbreakable /\ SpaceFree(search.fullText, search.offset))

C7_Witness ==
    /\ search.called
    /\ search.offset > MinUnbreakable
    /\ search.offset < Len(search.fullText)
    /\ ~SpaceAt(search.fullText, search.offset)
    /\ \E k \in 1..Len(search.fullText) : search.fullText[k] = " "

\* The prefixes of text that end in front of a space and are no higher than
\* the limit, by their lengths
FittingPrefixes(text, limit, w) ==
    {n \in 1..Len(text) : SpaceAt(text, n) /\ CandidateHeight(n, w) <= limit}

\* The length of the longest of them, 0 when there is none
LongestFitting(text, limit, w) ==
    IF FittingPrefixes(text, limit, w) = {} THEN 0
    ELSE CHOOSE n \in FittingPrefixes(text, limit, w) :
             \A m \in FittingPrefixes(text, limit, w) : m <= n

\* C8: the offset returned is the length of the longest prefix that ends in
\* front of a space and is no higher than the limit, and 0 when no such
\* prefix fits.
C8_LongestFittingPrefix ==
    search.called =>
        search.offset = LongestFitting(search.fullText, search.heightLimit, search.width)

(***************************************************************************)
(* Properties of onBeforeCreate                                            *)
(***************************************************************************)
\* A positive number
ValidDimension(v) == v.kind = "number" /\ v.value > 0

\* C9: onBeforeCreate fails, and builds no measurement surface, whenever
\* bodyHeight or bodyWidth is missing, not a numeric value, or not above 0;
\* with valid values it does not fail.
C9_InvalidOptionsRejected ==
    options.outcome # "none" =>
        /\ (options.outcome = "created") <=>
               (ValidDimension(options.bodyHeight) /\ ValidDimension(options.bodyWidth))
        /\ options.surface => options.outcome = "created"

(***************************************************************************)
(* C11 .. C20                                                              *)
(***************************************************************************)
\* The pass has thrown: the step splitPage built was refused.
PassRaised == pc = "error"

\* C11: once initialization has succeeded no pass raises an error to the
\* host, for any document over the schema: every node the boundary search
\* visits has a decision function, and every split the loop applies is a
\* valid replace step.
C11_NoPassRaises == ~PassRaised

\* C12: whenever a node that is not a page is visited and has no element in
\* the live render surface, it is rendered into the scratch surface and its
\* decision function receives an element (never null), and the failure to
\* measure never reaches the host.
C12_AbsentNodeIsMeasured ==
    /\ (surface.call = "visit" /\ surface.type # PAGE) => surface.dom # "null"
    /\ surface.call \in {"visit", "removeAbsentHtmlH"} => ~surface.raised

\* The tokens of page k of d
PageOf(d, k) == SubSeq(d, Pages(d)[k], CloseOf(d, Pages(d)[k]))

\* C13: mergeDefaultDocument(count) with count >= 1 on a document of n pages
\* ends after exactly max(0, n - count) joins, each of which joins the last
\* page into the page in front of it (the pages in front of the last are
\* those of the original), and leaves min(n, count) pages that hold all of
\* the original content in order; with count 1 a single page is left.
C13_MergeLeavesCountPages ==
    LET n == Len(Pages(doc0))
    IN  /\ pc \in {"merge", "merged"} =>
              \A k \in 1..(Len(Pages(doc)) - 1) : PageOf(doc, k) = PageOf(doc0, k)
        /\ pc = "merged" =>
              /\ call.joins = Max(0, n - call.count)
              /\ Len(Pages(doc)) = Min(n, call.count)
              /\ DocText(doc) = DocText(doc0)
              /\ doc = mergeDefaultDocument(doc0, call.count)
              /\ call.count = 1 => Len(Pages(doc)) = 1

C13_Witness ==
    /\ pc = "merged" /\ call.joins = 2 /\ call.count = 1
    /\ Len(DocText(doc)) >= 4

\* The first child of the last page is a continuation (extend: true) of the
\* same kind as the last child of the page in front of it.
ExtendsPredecessor(d) ==
    LET lastPage == LastPage(d)
        first == lastPage + 1
        tail == lastPage - 2
    IN  /\ IsOpen(d, first) /\ d[first].extend
        /\ IsClose(d, tail) /\ d[tail].type # PAGE
        /\ d[first].type = d[tail].type

C15_FirstPageKeepsContent ==
    (PassDone /\ prevFirst) => FirstPageHasContent(doc)

\* C16: every boundary getNodeHeight returns lies inside the last page (its
\* position is strictly greater than the position the last page starts at),
\* so that the split at it leaves the pages in front of the last as they
\* are.
C16_BoundaryInsideLastPage ==
    InSplitLoop =>
        LET splitInfo == getNodeHeight(doc, budget, width)
            start == LastPage(doc) - 1
            r == splitPage(doc, splitInfo.pos, splitInfo.depth, nextId)
        IN  splitInfo # Null =>
                /\ splitInfo.pos > start
                /\ SubSeq(r.doc, 1, start) = SubSeq(doc, 1, start)

\* C17: the removal of duplicate ids is the first step of a pass, and in
\* every pass that runs the split loop, a full reflow as well as an
\* incremental pass, the repair step (checkNodeAndFix, then the test for an
\* empty first page) runs after the split loop and before the transaction
\* is returned.
C17_RepairFollowsTheSplitLoop ==
    [][/\ pc = "start" => pc' = "route"
       /\ (pc = "split" /\ pc' \notin {"split", "error", "beyond"}) => pc' = "fix"
       /\ pc = "fix" => pc' = "tail"
       /\ pc = "tail" => pc' = "done"]_vars

\* The pages of d are the children of the root, and nothing else is.
PagesAreTheChildrenOfTheRoot(d) ==
    \A i \in Nodes(d) : d[i].type = PAGE <=> Depth(d, i - 1) = 0

\* The depth of every boundary is the depth of the position it is at, and
\* not less than `least`.
BoundaryDepthIsResolvedDepth(least) ==
    InSplitLoop =>
        LET splitInfo == getNodeHeight(doc, budget, width)
        IN  splitInfo # Null =>
                /\ splitInfo.depth = Depth(doc, splitInfo.pos)
                /\ splitInfo.depth >= least

C19_SplitLeavesNoEmptyNode ==
    [][(InSplitLoop /\ doc' # doc) =>
         LET splitInfo == getNodeHeight(doc, budget, width)
             a == Ancestors(doc, splitInfo.pos)
             pages == Pages(doc')
             before == pages[Len(pages) - 1]
             inner == splitInfo.pos + 2 * splitInfo.depth
         IN  /\ HasChildren(doc', before)
             /\ \A i \in Nodes(doc') :
                  (/\ i > before /\ i < CloseOf(doc', before)
                   /\ doc'[i].type \in {ORDEREDLIST, BULLETLIST, LISTITEM})
                  => HasChildren(doc', i)
             /\ InlineContent(doc[a[Len(a)]].type) =>
                  /\ IsText(doc', splitInfo.pos)
                  /\ IsOpen(doc', inner) /\ IsText(doc', inner + 1)]_vars

\* C20: once the measurement surface has been rebuilt (buildComputedHtml, as
\* recomputeComputedHtml calls it), every value that computedWidth,
\* getDefault and generateHTML return is the one computed against the new
\* surface: no cache entry written before the rebuild is returned after it.
C20_MeasuredAgainstTheNewSurface ==
    (surface.builds > 1 /\ surface.iframeDoc /\ ~surface.raised) =>
        /\ surface.call = "computedWidth" =>
               surface.result = Measure(surface.key, surface.style)
        /\ surface.call = "getDefault" => surface.result = SpanHeight(surface.style)
        /\ surface.call = "generateHTML" => surface.result = Html(surface.key)

(***************************************************************************)
(* C21 .. C30                                                              *)
(***************************************************************************)
\* C21: every conversion uses the one DPI basis resolved at construction: a
\* length of k inches is the same number of pixels whether it is given in
\* millimetres (25.4 k) or in points (72 k), and the conversions from
\* pixels back to millimetres and to points give the length back.
C21_OneBasisForAllUnits ==
    call.done =>
        /\ RatEq(call.mmPx, call.ptPx)
        /\ RatEq(call.pxMm, Rat(254 * call.inches, 10))
        /\ RatEq(call.pxPt, Rat(72 * call.inches, 1))

\* The callbacks of the walk of getNodeHeight from token i to token last that
\* are reached before a boundary is set: the node and the context it is
\* called with.
RECURSIVE Visits(_, _, _, _, _, _)
Visits(d, i, last, ctx, bud, w) ==
    IF i > last \/ ctx.b # Null THEN {}
    ELSE IF IsOpen(d, i)
    THEN LET r == nodesComputed(d, i, ctx, bud, w)
         IN  {[i |-> i, ctx |-> ctx]}
             \cup (IF r.recurse THEN Visits(d, i + 1, last, r.ctx, bud, w)
                   ELSE Visits(d, CloseOf(d, i) + 1, last, r.ctx, bud, w))
    ELSE Visits(d, i + 1, last, ctx, bud, w)

\* The nodes of type t that getNodeHeight hands to their callback in the
\* document of the state, each with the context of the call.
Visited(t) ==
    LET lp == LastPage(doc)
    IN  {v \in Visits(doc, lp, CloseOf(doc, lp), Ctx(0, Null), budget, width) :
            doc[v.i].type = t}

\* C22: a paragraph that does not overflow the remaining budget is
\* accumulated and sets no boundary.  A paragraph that overflows sets exactly
\* one boundary and leaves the accumulated height as it was: inside the
\* paragraph, at pos + break, when it is taller than the default line and
\* getBreakPos returns a break; else one level up, at its parent, when it is
\* the first child of its parent; else at its own start.
C22_ParagraphPolicy ==
    InSplitLoop =>
        \A v \in Visited(PARAGRAPH) :
            LET pos == v.i - 1
                pHeight == DomHeight(doc, v.i, width)
                break == getBreakPos(doc, v.i, v.ctx.acc, budget, width)
                r == paragraphCalculation(doc, v.i, v.ctx, budget, width)
            IN  /\ ~r.recurse
                /\ IF ~isOverflow(v.ctx, pHeight, budget)
                   THEN r.ctx = Ctx(v.ctx.acc + pHeight, Null)
                   ELSE /\ r.ctx.acc = v.ctx.acc
                        /\ r.ctx.b # Null
                        /\ r.ctx.b =
                             IF pHeight > DefaultHeight(width) /\ break > 0
                             THEN Boundary(pos + break, Depth(doc, pos) + 1)
                             ELSE IF IsFirstChild(doc, v.i)
                             THEN Boundary(ParentChunkPos(doc, pos), Depth(doc, pos) - 1)
                             ELSE Boundary(pos, Depth(doc, pos))

\* The heading that opens at token i of d is whole at the head of the last
\* page of e.
HeadsLastPage(d, i, e) ==
    LET first == LastPage(e) + 1
    IN  /\ e[first] = d[i]
        /\ TextContent(e, first) = TextContent(d, i)

\* C23: a heading that overflows the remaining budget and is not taller than
\* the page budget gets the boundary at its own start.  A heading taller than
\* the page budget gets the boundary inside it, at the break getBreakPos
\* finds; when there is no break the boundary is at its own start, no height
\* is accumulated for it, and the split puts the whole heading at the head of
\* the new page.
C23_HeadingPolicy ==
    [][InSplitLoop =>
        \A v \in Visited(HEADING) :
            LET pos == v.i - 1
                pHeight == DomHeight(doc, v.i, width)
                break == getBreakPos(doc, v.i, v.ctx.acc, budget, width)
                r == headingCalculation(doc, v.i, v.ctx, budget, width)
                own == Boundary(pos, Depth(doc, pos))
            IN  isOverflow(v.ctx, pHeight, budget) =>
                  /\ ~r.recurse
                  /\ r.ctx.acc = v.ctx.acc
                  /\ pHeight <= budget => r.ctx.b = own
                  /\ (pHeight > budget /\ break > 0) =>
                        r.ctx.b = Boundary(pos + break, Depth(doc, pos) + 1)
                  /\ (pHeight > budget /\ break = 0) =>
                        /\ r.ctx.b = own
                        /\ doc' # doc => HeadsLastPage(doc, v.i, doc')]_vars

\* A heading taller than the page with no break in it is what overflows.
C23_Witness ==
    /\ InSplitLoop
    /\ \E v \in Visited(HEADING) :
          /\ DomHeight(doc, v.i, width) > budget
          /\ getBreakPos(doc, v.i, v.ctx.acc, budget, width) = 0
          /\ getNodeHeight(doc, budget, width) = Boundary(v.i - 1, Depth(doc, v.i - 1))

\* C24: a list item that does not overflow is accumulated and sets no
\* boundary.  An item that overflows and is taller than the whole page budget
\* accumulates its padding and margin only, sets no boundary and has its
\* children visited; any other overflowing item sets the boundary one level
\* up, at the start of its list, when it is the first item of the list, and
\* at its own position otherwise.
C24_ListItemPolicy ==
    InSplitLoop =>
        \A v \in Visited(LISTITEM) :
            LET pos == v.i - 1
                pHeight == DomHeight(doc, v.i, width)
                r == sameItemCalculation(doc, v.i, v.ctx, budget, width)
            IN  IF ~isOverflow(v.ctx, pHeight, budget)
                THEN r = Decision(Ctx(v.ctx.acc + pHeight, Null), FALSE)
                ELSE IF pHeight > budget
                THEN r = Decision(Ctx(v.ctx.acc + DomPaddingAndMargin(doc, v.i), Null),
                                  TRUE)
                ELSE IF doc[v.i - 1].k = "open"
                THEN r = Decision(Ctx(v.ctx.acc, Boundary(pos - 1, Depth(doc, pos) - 1)),
                                  FALSE)
                ELSE r = Decision(Ctx(v.ctx.acc, Boundary(pos, Depth(doc, pos))), FALSE)

\* The first item of a list overflows what is left of the page and would fit
\* a page of its own.
C24_Witness ==
    /\ InSplitLoop
    /\ \E v \in Visited(LISTITEM) :
          /\ isOverflow(v.ctx, DomHeight(doc, v.i, width), budget)
          /\ DomHeight(doc, v.i, width) <= budget
          /\ doc[v.i - 1].type \in {ORDEREDLIST, BULLETLIST}
          /\ getNodeHeight(doc, budget, width) = Boundary(v.i - 2, Depth(doc, v.i - 2))

\* The ids in use in d.
Ids(d) == {d[i].id : i \in Nodes(d)} \ {NoId}

\* The split of the step doc -> doc' seen from the boundary {pos, depth} of
\* the round: the tokens in front of pos are as they were (the before side
\* keeps ids and attributes), and every copy that opens a node on the after
\* side, from level `from` of the slice inwards, has when it has an id an id
\* that is neither its counterpart's nor in use in doc nor given to another
\* copy, and extend = true.  Level 1 is the page.
SplitIdentity(from) ==
    LET b == getNodeHeight(doc, budget, width)
        a == Ancestors(doc, b.pos)
        lo == Len(a) - b.depth
        copy(j) == doc'[b.pos + b.depth + j]
    IN  /\ SubSeq(doc', 1, b.pos) = SubSeq(doc, 1, b.pos)
        /\ \A j \in from..b.depth :
              copy(j).id # NoId =>
                /\ copy(j).id # doc[a[lo + j]].id
                /\ copy(j).id \notin Ids(doc)
                /\ \A k \in 1..b.depth : k # j => copy(k).id # copy(j).id
                /\ copy(j).extend

ConsecutivePages(d) ==
    LET ps == Pages(d)
    IN  \A k \in 1..(Len(ps) - 1) : d[ps[k + 1]].num = d[ps[k]].num + 1

\* C26: the page splitPage creates has the page number of the page it
\* splits plus one, and a pass that returns on a document whose page numbers
\* were consecutive leaves them consecutive.
C26_PageNumbersConsecutive ==
    [][/\ (InSplitLoop /\ doc' # doc) =>
            LET b == getNodeHeight(doc, budget, width)
                split == Ancestors(doc, b.pos)[1]
                new == doc'[b.pos + b.depth + 1]
            IN  /\ doc[split].type = PAGE /\ new.type = PAGE
                /\ new.num = doc[split].num + 1
       /\ (pc' = "done" /\ ConsecutivePages(doc0)) => ConsecutivePages(doc')]_vars

\* A pass has returned a document of three pages or more, numbered from one
\* page to the next, and it has created one of them.
C26_Witness ==
    /\ PassDone
    /\ ConsecutivePages(doc0)
    /\ Len(Pages(doc)) >= 3
    /\ Len(Pages(doc)) > Len(Pages(doc0))

\* C27: splitPage applies exactly one replace step, of zero width, at the
\* boundary; the text of the document is as it was, and there is one page
\* more, for every boundary the split loop finds: no round of the loop that
\* has a boundary leaves the document as it was.
C27_SplitInsertsOnePage ==
    [][(/\ InSplitLoop
        /\ getNodeHeight(doc, budget, width) # Null
        /\ Len(Pages(doc)) < MaxPages
        /\ steps < MaxSteps) =>
          LET b == getNodeHeight(doc, budget, width)
          IN  /\ steps' = steps + 1
              /\ SubSeq(doc', 1, b.pos) = SubSeq(doc, 1, b.pos)
              /\ SubSeq(doc', Len(doc') - (Len(doc) - b.pos) + 1, Len(doc'))
                    = SubSeq(doc, b.pos + 1, Len(doc))
              /\ DocText(doc') = DocText(doc)
              /\ Len(Pages(doc')) = Len(Pages(doc)) + 1]_vars

\* C28: a pass that sees the splitPage flag merges all pages into one and
\* then enters the split loop, so that the first boundary search is made on
\* a document of exactly one page with the text it had; neither the inserting
\* and deleting flags nor the selection make a difference.
C28_FullReflowMergesToOnePage ==
    [][(pc = "route" /\ flags.splitPage) =>
          /\ pc' = "split"
          /\ Len(Pages(doc')) = 1
          /\ DocText(doc') = DocText(doc)
          /\ steps' = Count(steps + Len(Pages(doc)) - 1)]_vars

\* A full reflow of two pages has merged them, in a pass that without the
\* splitPage flag would have returned at once.
C28_Witness ==
    /\ pc = "split"
    /\ flags.splitPage /\ flags.deleting /\ ~flags.inserting
    /\ HeadInLastPage
    /\ Len(Pages(doc0)) = 2
    /\ Len(Pages(doc)) = 1
    /\ steps = 1

\* C29: a pass with deleting set, inserting and splitPage not set, the
\* head of the selection in the last page and no step in the transaction
\* merges nothing and splits nothing: it returns the transaction without a
\* step, the document being the one the pass was given.
C29_IncrementalNoOp ==
    [][(/\ pc = "route"
        /\ flags.deleting /\ ~flags.inserting /\ ~flags.splitPage
        /\ HeadInLastPage
        /\ steps = 0) =>
          /\ pc' = "done"
          /\ steps' = 0
          /\ doc' = doc /\ doc' = doc0]_vars

\* The pass has returned at once a document whose last page overflows: a
\* split loop would have found a boundary in it.
C29_Witness ==
    /\ PassDone
    /\ flags.deleting /\ ~flags.inserting /\ ~flags.splitPage
    /\ HeadInLastPage
    /\ steps = 0
    /\ doc = doc0
    /\ getNodeHeight(doc, budget, width) # Null

\* The pass is an incremental one that is not the no-op case.
IncrementalPass ==
    /\ ~flags.splitPage
    /\ flags.inserting \/ flags.deleting
    /\ ~(flags.deleting /\ ~flags.inserting /\ HeadInLastPage /\ steps = 0)

\* The page, counted from 1, that position pos of d lies in.
PageNumberOf(d, pos) ==
    Cardinality({p \in PageStarts(d) : p <= pos})

\* C30: an incremental pass that is not the no-op case always enters the
\* split loop.  When the document has more than one page and the start and
\* the head of the selection lie in different pages, the pages behind the
\* page of the head are merged into it first: as many pages are left as the
\* index of the page of the head says, the pages in front of it are as they
\* were, and no text is lost.
C30_IncrementalPassMergesBehindTheHead ==
    [][(pc = "route" /\ IncrementalPass) =>
          /\ pc' = "split"
          /\ LET startNumber == PageNumberOf(doc, sel.from)
                 curNumber == PageNumberOf(doc, sel.head)
                 childCount == Len(Pages(doc))
             IN  (childCount > 1 /\ startNumber # curNumber) =>
                    /\ Len(Pages(doc')) = curNumber
                    /\ SubSeq(doc', 1, Pages(doc)[curNumber] - 1)
                          = SubSeq(doc, 1, Pages(doc)[curNumber] - 1)
                    /\ DocText(doc') = DocText(doc)
                    /\ steps' = Count(steps + childCount - curNumber)]_vars

\* The pages behind the page of the head have been merged into it: of three
\* pages, with the selection from the first page to the second, two are left
\* when the split loop is entered.
C30_Witness ==
    /\ pc = "split"
    /\ IncrementalPass
    /\ Len(Pages(doc0)) = 3
    /\ PageNumberOf(doc0, sel.from) = 1
    /\ PageNumberOf(doc0, sel.head) = 2
    /\ Len(Pages(doc)) = 2
    /\ SubSeq(doc, 1, Pages(doc0)[2] - 1) = SubSeq(doc0, 1, Pages(doc0)[2] - 1)
    /\ steps = 1

(***************************************************************************)
(* C31 .. C39                                                              *)
(***************************************************************************)
\* The node that opens at token i of d is a continuation paragraph.
ContinuationParagraph(d, i) ==
    IsOpen(d, i) /\ d[i].type = PARAGRAPH /\ d[i].extend

\* Two continuation paragraphs of d follow each other with nothing but
\* paragraphs between them, and one of the two is empty.
SpuriousEmptyParagraph(d) ==
    \E i, j \in Nodes(d) :
        /\ i < j
        /\ ContinuationParagraph(d, i) /\ ContinuationParagraph(d, j)
        /\ \A k \in Nodes(d) : (i < k /\ k < j) => d[k].type = PARAGRAPH
        /\ IsClose(d, i + 1) \/ IsClose(d, j + 1)

\* C31: when two continuation paragraphs are adjacent with no node that is
\* not a paragraph between them, checkNodeAndFix removes the empty paragraph
\* of the pair by a replace step.
C31_RepairRemovesTheEmptyParagraph ==
    [][(pc = "fix" /\ SpuriousEmptyParagraph(doc)) =>
          /\ doc' # doc
          /\ steps' = steps + 1
          /\ Len(doc') = Len(doc) - 2]_vars

\* The document the operations 1 .. k of removeElementsWithDuplicateId ask
\* for, worked out on the positions of d from the last operation to the
\* first so that no position has to be mapped: a delete removes the node it
\* was pushed for, from its start to its start plus its size, and a
\* change-id gives the node it was pushed for the id getId() returns for it.
RECURSIVE OperationsAsMeant(_, _, _, _)
OperationsAsMeant(d, operations, k, nid) ==
    IF k = 0 THEN d
    ELSE
      LET op == operations[k]
          node == TargetOf(op)
          id == nid + Cardinality({j \in 1..(k - 1) :
                                      operations[j].operation = "change-id"})
      IN  OperationsAsMeant(
            IF op.operation = "delete"
            THEN RemoveRange(d, node - 1, node - 1 + NodeSize(d, node))
            ELSE [d EXCEPT ![node].id = id],
            operations, k - 1, nid)

\* C32: every delete operation of removeElementsWithDuplicateId removes the
\* range of the node chosen for deletion and nothing else, and every
\* change-id operation changes the id of the chosen node and nothing else,
\* also when one pass applies several operations.
C32_OperationsActOnTheChosenNodes ==
    pc = "route" => doc = OperationsAsMeant(doc0, ops, Len(ops), FreshId(doc0))

\* C33: after PageState.transform(tr) each of the flags inserting, deleting
\* and splitPage is true if and only if tr carries the meta of that name;
\* nothing is kept of the flags an earlier transaction has set, bodyOptions
\* is what it was, and the flags the pass reads are those of the transaction
\* applied last.
C33_FlagsOfTheLastTransaction ==
    (pc = "state" /\ call.applied > 0) =>
        /\ call.state.inserting <=> "inserting" \in call.tr
        /\ call.state.deleting <=> "deleting" \in call.tr
        /\ call.state.splitPage <=> "splitPage" \in call.tr
        /\ call.state.bodyOptions = call.bodyOption
        /\ flags = [inserting |-> "inserting" \in call.tr,
                    deleting |-> "deleting" \in call.tr,
                    splitPage |-> "splitPage" \in call.tr]

\* A transaction without metas has followed one that carried all three: no
\* flag is left.
C33_Witness ==
    /\ pc = "state"
    /\ call.applied >= 2
    /\ call.prev = Metas
    /\ call.tr = {}
    /\ flags = [inserting |-> FALSE, deleting |-> FALSE, splitPage |-> FALSE]

\* The probes of the loop without the test for an empty candidate
RECURSIVE ProbesTrimmedOnly(_, _, _, _, _)
ProbesTrimmedOnly(fullText, low, high, heightLimit, w) ==
    IF low > high THEN {}
    ELSE
      LET mid == (low + high) \div 2
          found == LastSpaceIndex(fullText, mid)
      IN  IF found < 0 /\ ~(mid > MinUnbreakable) THEN {}
          ELSE
            LET lastSpaceIndex == IF found < 0 THEN mid ELSE found
            IN  {[mid |-> mid, candidate |-> lastSpaceIndex]}
                \cup (IF CandidateHeight(lastSpaceIndex, w) <= heightLimit
                      THEN ProbesTrimmedOnly(fullText, mid + 1, high, heightLimit, w)
                      ELSE ProbesTrimmedOnly(fullText, low, mid - 1, heightLimit, w))

\* The probes of the loop of binarySearchTextBreak, lines 297-325: for every
\* round that reaches createAndCalculateHeight, mid and the length of the
\* candidate (a prefix of fullText) the text node is built from.
RECURSIVE Probes(_, _, _, _, _)
Probes(fullText, low, high, heightLimit, w) ==
    IF low > high THEN {}
    ELSE
      LET mid == (low + high) \div 2
          found == LastSpaceIndex(fullText, mid)
      IN  IF found < 0 /\ ~(mid > MinUnbreakable) THEN {}
          ELSE
            LET lastSpaceIndex == IF found < 0 THEN mid ELSE found
            IN  IF lastSpaceIndex = 0 /\ ~(mid > 1) THEN {}
                ELSE
                  LET candidate == IF lastSpaceIndex = 0 THEN 1 ELSE lastSpaceIndex
                  IN  {[mid |-> mid, candidate |-> candidate]}
                      \cup (IF CandidateHeight(candidate, w) <= heightLimit
                            THEN Probes(fullText, mid + 1, high, heightLimit, w)
                            ELSE Probes(fullText, low, mid - 1, heightLimit, w))

\* C34: binarySearchTextBreak never builds or measures an empty text node:
\* every candidate it measures has one character at least, where the
\* trimming to the last space leaves nothing the candidate is the first
\* character of the text, and a break that is returned is the length of a
\* candidate that was measured.
C34_NoEmptyCandidate ==
    search.called =>
        LET probes == Probes(search.fullText, 1, Len(search.fullText),
                             search.heightLimit, search.width)
        IN  /\ \A probe \in probes :
                  /\ probe.candidate >= 1
                  /\ probe.candidate <= probe.mid
                  /\ LastSpaceIndex(search.fullText, probe.mid) = 0 =>
                        probe.candidate = 1
            /\ search.offset # 0 =>
                  \E probe \in probes : probe.candidate = search.offset

\* The search has measured the first character of a text that begins with
\* its only space within the probe.
C34_Witness ==
    /\ search.called
    /\ \E probe \in Probes(search.fullText, 1, Len(search.fullText),
                           search.heightLimit, search.width) :
          /\ LastSpaceIndex(search.fullText, probe.mid) = 0
          /\ probe.mid > 1
          /\ probe.candidate = 1

\* C35: for every boundary the boundary search produces, splitPage followed
\* by mergeDefaultDocument back to the number of pages there were gives the
\* document there was: the same nodes in the same order, every node that was
\* split one node again under the id it had, whatever the depth of the split.
C35_SplitThenMergeIsARoundTrip ==
    [][(InSplitLoop /\ Len(Pages(doc')) = Len(Pages(doc)) + 1) =>
          mergeDefaultDocument(doc', Len(Pages(doc))) = doc]_vars

\* The document without its ids.
Shape(d) == [k \in DOMAIN d |-> [d[k] EXCEPT !.id = NoId]]

\* C36: the chain update, dispatch, pass, update that an edit starts ends
\* after finitely many rounds.  The pass does not look at the values of the
\* ids, so a round that is dispatched with the inserting meta alone and
\* leaves a document that differs from the one it was given in ids only,
\* with the page of the selection overflown as before, is followed by the
\* same round for ever: the chain can only end if there is no such round.
\* And a Backspace key press causes one transaction with the deleting meta
\* at most.
C36_DetectorLoopIsFinite ==
    [][/\ call'.deleting <= 1
       /\ (/\ pc = "dispatch"
           /\ flags = [inserting |-> TRUE, deleting |-> FALSE, splitPage |-> FALSE]
           /\ pc' = "update") =>
             ~(/\ doc' # doc
               /\ Shape(doc') = Shape(doc)
               /\ isOverflown(doc', sel, budget, width))]_vars

\* C37: while a composition is going on (between compositionstart and the
\* compositionend that follows it) update dispatches no transaction with
\* the inserting or the deleting meta, whatever the document has become;
\* a transaction it dispatches is for a document that has changed with no
\* composition going on.
C37_CompositionGate ==
    [][pc' = "dispatch" => /\ ~call.composition
                           /\ pc = "update"
                           /\ doc # doc0]_vars

\* An edit made during a composition that has made the page of the
\* selection overflow, with Backspace pressed, and update has let it pass.
C37_Witness ==
    /\ call.composition
    /\ pc = "idle"
    /\ call.edits > 0
    /\ doc # doc0
    /\ call.stepStatus
    /\ isOverflown(doc, sel, budget, width)

\* The document a full reflow of d gives: everything merged into one page
\* and split again.
FullReflow(d, nid, bud, w) ==
    LET r == ApplyOperations(DuplicateOperations(d),
                             [doc |-> d, mapping |-> <<>>, steps |-> 0, nid |-> nid])
    IN  splitDocument(mergeDefaultDocument(r.doc, 1), r.nid, bud, w).doc

\* Every invocation builds the surface in the step of the invocation and
\* leaves one timer; every timer gives one transaction with the splitPage
\* meta alone, whose pass is a full reflow; an edit takes no timer away and
\* adds none, and its passes are passes without the splitPage flag.
ReflowSteps ==
    /\ call'.invoked = call.invoked + 1 =>
           /\ surface'.builds = surface.builds + 1
           /\ call'.pending = call.pending + 1
           /\ call'.reflows = call.reflows
    /\ call'.reflows # call.reflows =>
           /\ call'.reflows = call.reflows + 1
           /\ call'.pending = call.pending - 1
           /\ flags' = [inserting |-> FALSE, deleting |-> FALSE, splitPage |-> TRUE]
           /\ pc' = "dispatch"
    /\ (pc = "dispatch" /\ flags.splitPage) =>
           doc' = FullReflow(doc, nextId, budget, width)
    /\ call'.invoked = call.invoked =>
           /\ call'.pending + call'.reflows = call.pending + call.reflows
           /\ surface' = surface
    /\ (pc' = "dispatch" /\ call'.reflows = call.reflows) => ~flags'.splitPage

\* C38: every invocation of recomputeComputedHtml rebuilds the surface at
\* once and is followed, in the end, by one transaction with the splitPage
\* meta and no more than one, whose pass is a full reflow; the edits made
\* before that transaction are handled by passes without the flag and
\* neither cancel nor double the reflow that is due.
C38_EveryInvocationReflowsOnce ==
    /\ [](call.invoked = call.pending + call.reflows)
    /\ [][ReflowSteps]_vars
    /\ \A k \in 1..MaxInvocations : (call.invoked >= k) ~> (call.reflows >= k)

\* C39: after an initialization that succeeded, the height getBodyHeight
\* gives the passes as their budget (bodyHeight less the top and bottom
\* margins, less the header or the footer where the page number is shown)
\* is a number greater than 0.
C39_BudgetPositive ==
    call.height.kind # "undefined" =>
        call.height.kind = "number" /\ call.height.value > 0

=============================================================================
